---------------------------- MODULE Spec2Model ----------------------------
(***************************************************************************)
(* A model of scalable-zip-fs: the path splitter (PathSplit), the merged   *)
(* index of ZipEntryManagerImpl, the FUSE request handlers and the rewrite *)
(* tool with its streaming source callback.                                *)
(*                                                                         *)
(* Byte strings are sequences of one-character strings.  Offsets into a    *)
(* string are 0-based as in the C++ code; CharAt(p, k) is pathptr[k].      *)
(***************************************************************************)
EXTENDS Integers, Sequences, FiniteSets, TLC

VARIABLES
    path,           \* PathSplit: the input bytes (pathptr, pathlen)
    ps,             \* PathSplit: the locals and members of the constructor
    zip_path_lst,   \* ZipEntryManagerImpl::zip_path_lst_ (slot 0 is root_'s name)
    dirs,           \* the DirectoryEntry nodes below root_, each named by its path
    files,          \* the FileEntry nodes, keyed by the path of names leading to them
    index_status,   \* outcome of the last index_zipfile call
    resp,           \* the last request served by a FUSE handler, with its result
    input_zip,      \* rewrite tool: the input archive as libzip presents it
    output_zip,     \* rewrite tool: the entry table of the output archive handle
    out_file,       \* rewrite tool: the output archive file on disk
    streams,        \* rewrite tool: the ZipStreamSource objects, by input index
    rw,             \* rewrite tool: the locals of main and its exit code
    zc,             \* rewrite tool: the progress of zip_close(output_zip)
    st_call,        \* the last command given to zip_stream_source_cb, with its result
    argv,           \* the command line of the tool being run, argv[0] left out
    mnt,            \* mount tool: the locals of main and its exit code
    reqs            \* the requests the FUSE worker threads are serving

pathVars == <<path, ps>>
indexVars == <<zip_path_lst, dirs, files, index_status>>

fsVars == <<resp>>

rwVars == <<input_zip, output_zip, out_file, streams, rw, zc>>

cbVars == <<st_call>>

mountVars == <<argv, mnt>>

concVars == <<reqs>>

vars == <<path, ps, zip_path_lst, dirs, files, index_status, resp,
          input_zip, output_zip, out_file, streams, rw, zc, st_call,
          argv, mnt, reqs>>

-----------------------------------------------------------------------------
(* Bounds and alphabets *)

\* longest input handed to PathSplit in SpecPath
MaxPathLen == 6

Chars == {"/", ".", "a", "b"}

Strings(n) == UNION {[1..k -> Chars] : k \in 0..n}

-----------------------------------------------------------------------------
(* PathSplit::PathSplit(const char*, size_t)          src/src/utils.cpp:10 *)

CharAt(p, k) == p[k + 1]

\* lines 11-23: locals, and is_dir_ from the last byte
PathSplitInit(p) ==
    [i             |-> 0,
     seg_start     |-> 0,
     seg_end       |-> 0,
     last_was_dots |-> FALSE,
     segments      |-> <<>>,
     is_dir        |-> IF Len(p) > 0 THEN CharAt(p, Len(p) - 1) = "/" ELSE FALSE,
     done          |-> FALSE]

\* line 36
IsDotSegment_NoDot(p, start, len) == FALSE

IsDotSegment(p, start, len) ==
    len = 1 /\ CharAt(p, start) = "."

\* line 38 never true: ".." is kept as a name
IsDotDotSegment_Never(p, start, len) == FALSE

\* line 38
IsDotDotSegment(p, start, len) ==
    len = 2 /\ CharAt(p, start) = "." /\ CharAt(p, start + 1) = "."

\* lines 39-41: a mutant that clears the list instead of popping one
PopSegment_Clear(segments) == <<>>

PopSegment(segments) ==
    IF segments # <<>> THEN SubSeq(segments, 1, Len(segments) - 1) ELSE segments

\* line 42 forgotten: ".." does not mark the path
LastWasDots_DotOnly(dot, dotdot) == dot

\* lines 33-42: last_was_dots after a component was delimited
LastWasDots(dot, dotdot) == dot \/ dotdot

\* lines 25-50: one iteration of the while loop
PathSplitIter(p, s) ==
    LET seg_found == s.i = Len(p) \/ CharAt(p, s.i) = "/"
        seg_end   == IF seg_found THEN s.i ELSE s.seg_end
        seg_len   == seg_end - s.seg_start
        dot       == seg_len # 0 /\ IsDotSegment(p, s.seg_start, seg_len)
        dotdot    == seg_len # 0 /\ ~dot /\ IsDotDotSegment(p, s.seg_start, seg_len)
    IN  IF seg_found
        THEN [s EXCEPT
                !.i = s.i + 1,
                !.seg_end = seg_end,
                !.seg_start = s.i + 1,
                !.last_was_dots = LastWasDots(dot, dotdot),
                !.segments =
                    IF seg_len = 0 \/ dot THEN s.segments
                    ELSE IF dotdot THEN PopSegment(s.segments)
                    ELSE Append(s.segments, <<s.seg_start, seg_end>>)]
        ELSE [s EXCEPT !.i = s.i + 1]

\* line 52 forgotten
FinalIsDir_NoDots(s) == s.is_dir

\* line 52: is_dir_ |= last_was_dots
FinalIsDir(s) == s.is_dir \/ s.last_was_dots

PathSplitReturn(s) == [s EXCEPT !.is_dir = FinalIsDir(s), !.done = TRUE]

RECURSIVE PathSplitRun(_, _)
PathSplitRun(p, s) ==
    IF s.i <= Len(p) THEN PathSplitRun(p, PathSplitIter(p, s))
    ELSE PathSplitReturn(s)

\* the constructed object: segments() and is_dir()
PathSplit(p) == PathSplitRun(p, PathSplitInit(p))

\* std::string(name + start, finish - start)
Span(p, seg) == SubSeq(p, seg[1] + 1, seg[2])

\* the component names of a constructed PathSplit
SegmentNames(p, segments) == [k \in 1..Len(segments) |-> Span(p, segments[k])]

-----------------------------------------------------------------------------
(* Archives as libzip presents them.  An archive file is identified with   *)
(* what zip_open and zip_stat_index report for it; an entry carries the    *)
(* outcome of zip_stat_index (stat), the st.valid bits, and its metadata   *)
(* and decompressed bytes.                                                 *)

FullValid == {"NAME", "SIZE", "COMP_SIZE", "COMP_METHOD"}

Entry(name, data, method, stat, valid) ==
    [name |-> name, data |-> data, comp_method |-> method,
     stat |-> stat, valid |-> valid]

\* st.size and st.comp_size of an entry
StSize(e) == Len(e.data)
StCompSize(e) == IF e.comp_method = "STORE" THEN Len(e.data) ELSE Len(e.data) + 1

\* The entries archives are made of: a root file, a nested file, a second
\* spelling of the root file, an explicit directory, a name that normalizes
\* to a directory, an empty name, and entries whose metadata is incomplete.
EntryPool ==
    { Entry(<<"a">>,                <<1>>,    "STORE",   "ok",   FullValid),
      Entry(<<"a", "/", "b">>,      <<1, 2>>, "DEFLATE", "ok",   FullValid),
      Entry(<<".", "/", "a">>,      <<2, 2>>, "STORE",   "ok",   FullValid),
      Entry(<<"b", "/">>,           <<>>,     "STORE",   "ok",   FullValid),
      Entry(<<"a", "/", ".", ".">>, <<1>>,    "STORE",   "ok",   FullValid),
      Entry(<<>>,                   <<1>>,    "STORE",   "ok",   FullValid),
      Entry(<<"a">>,                <<1>>,    "STORE",   "fail", {}),
      Entry(<<"b">>,                <<1>>,    "STORE",   "ok",   FullValid \ {"SIZE"}),
      Entry(<<"b">>,                <<2>>,    "DEFLATE", "ok",   FullValid \ {"COMP_SIZE"}) }

\* most archives handed to index_zipfile, and most entries in them all
MaxArchives == 2
MaxEntries == 3

SeqsUpTo(S, n) == UNION {[1..k -> S] : k \in 0..n}

\* an archive zip_open accepts, or a file it rejects
Archives(n) ==
    {[ok |-> TRUE, entries |-> es] : es \in SeqsUpTo(EntryPool, n)}
        \cup {[ok |-> FALSE, entries |-> <<>>]}

-----------------------------------------------------------------------------
(* ZipEntryManagerImpl                               src/src/utils.cpp:593 *)

\* line 595: root_.name_ = &zip_path_lst_.emplace_back("")
RootName == <<>>

\* inline get_zip_path(idx): zip_path_lst_[idx]
get_zip_path(lst, idx) == lst[idx + 1]

\* lines 698-724: the FileEntry built for entry i of archive zip_idx
NewFileEntry(zip_idx, e, i) ==
    [zip_path_idx       |-> zip_idx,
     size               |-> StSize(e),
     compressed_size    |-> StCompSize(e),
     need_decompression |->
        (IF "COMP_METHOD" \in e.valid THEN e.comp_method ELSE "STORE") # "STORE",
     offset             |-> IF "COMP_SIZE" \in e.valid THEN i ELSE 0]

\* line 692 dropped: a later entry replaces the FileEntry at the same path
IsDuplicate_Never(fs, names) == FALSE

\* line 692 always true: the directories are made and no file is inserted
IsDuplicate_Always(fs, names) == TRUE

\* line 692: current_dir->files_.find(file_name) != end()
IsDuplicate(fs, names) == names \in DOMAIN fs

\* lines 674-680 dropped: missing directory nodes are not created
WalkCreate_None(ds, names) == ds

\* lines 666-684: walk the directory components, creating missing nodes
WalkCreate(ds, names) == ds \cup {SubSeq(names, 1, k) : k \in 1..(Len(names) - 1)}

\* line 633 testing the name only
MissingMetadata_NameOnly(e) == ~("NAME" \in e.valid)

\* line 633: !(st.valid & ZIP_STAT_NAME) || !(st.valid & ZIP_STAT_SIZE)
MissingMetadata(e) == ~("NAME" \in e.valid) \/ ~("SIZE" \in e.valid)

\* lines 624-732: the loop body for entry i (0-based) of archive zip_idx,
\* on the tree t = [dirs, files]
IndexEntry(t, zip_idx, e, i) ==
    IF e.stat # "ok" THEN t
    ELSE IF MissingMetadata(e) THEN t
    ELSE IF Len(e.name) > 0 /\ CharAt(e.name, Len(e.name) - 1) = "/" THEN t
    ELSE LET path_split == PathSplit(e.name)
         IN  IF path_split.is_dir THEN t
             ELSE IF path_split.segments = <<>> THEN t
             ELSE LET names == SegmentNames(e.name, path_split.segments)
                      ds    == WalkCreate(t.dirs, names)
                  IN  IF IsDuplicate(t.files, names)
                      THEN [t EXCEPT !.dirs = ds]
                      ELSE [dirs  |-> ds,
                            files |-> (names :> NewFileEntry(zip_idx, e, i)) @@ t.files]

RECURSIVE IndexEntries(_, _, _, _)

\* line 624 with i < num_entries - 1: the last entry is never visited
IndexEntries_OffByOne(t, zip_idx, es, k) ==
    IF k >= Len(es) - 1 THEN t
    ELSE IndexEntries(IndexEntry(t, zip_idx, es[k + 1], k), zip_idx, es, k + 1)

\* lines 624-732: entries k..num_entries-1 in order
IndexEntries(t, zip_idx, es, k) ==
    IF k >= Len(es) THEN t
    ELSE IndexEntries(IndexEntry(t, zip_idx, es[k + 1], k), zip_idx, es, k + 1)

\* lines 598-746: index_zipfile on manager state m = [zip_path_lst, dirs, files];
\* the result when zip_open succeeds
IndexArchive(m, a) ==
    LET zip_idx == Len(m.zip_path_lst)
        t       == IndexEntries([dirs |-> m.dirs, files |-> m.files],
                                zip_idx, a.entries, 0)
    IN  [zip_path_lst |-> Append(m.zip_path_lst, a),
         dirs         |-> t.dirs,
         files        |-> t.files]

\* lines 593-596: the manager after construction
NewManager == [zip_path_lst |-> <<RootName>>, dirs |-> {}, files |-> <<>>]

\* DirectoryEntry::find_dir / find_file below directory d
find_dir(ds, d, name) == Append(d, name) \in ds
find_file(fs, d, name) == Append(d, name) \in DOMAIN fs

NotFound == [found |-> FALSE]

\* lines 764-786
lookup_dir(ds, p) ==
    IF p = <<>> \/ p = <<"/">> THEN [found |-> TRUE, dir |-> <<>>]
    ELSE LET names == SegmentNames(p, PathSplit(p).segments)
         IN  IF \A k \in 1..Len(names) :
                    find_dir(ds, SubSeq(names, 1, k - 1), names[k])
             THEN [found |-> TRUE, dir |-> names]
             ELSE NotFound

\* lines 795-797 dropped: a directory-looking path still resolves
LookupRejectsDir_Never(path_split) == FALSE

\* lines 795-797
LookupRejectsDir(path_split) == path_split.is_dir

\* lines 788-828
lookup_file(ds, fs, p) ==
    IF p = <<>> THEN NotFound
    ELSE LET path_split == PathSplit(p)
             names      == SegmentNames(p, path_split.segments)
             n          == Len(names)
         IN  IF LookupRejectsDir(path_split) THEN NotFound
             ELSE IF names = <<>> THEN NotFound
             ELSE IF ~(\A k \in 1..(n - 1) :
                         find_dir(ds, SubSeq(names, 1, k - 1), names[k]))
                  THEN NotFound
             ELSE IF find_file(fs, SubSeq(names, 1, n - 1), names[n])
                  THEN [found |-> TRUE, key |-> names, entry |-> fs[names]]
                  ELSE NotFound

-----------------------------------------------------------------------------
(* FUSE handlers                                     src/src/utils.cpp:417 *)

\* <fcntl.h> and <errno.h> values used by the handlers
O_ACCMODE == 3
O_RDONLY == 0
O_WRONLY == 1
O_RDWR == 2
O_NONBLOCK == 2048
ENOENT == 2
EIO == 5
EACCES == 13

\* size of discard_buf, line 533
DiscardBufSize == 4096

NoRequest == [op |-> "none"]

\* line 484 without the mask: flags compared as a whole
AccessModeIsReadOnly_NoMask(flags) == flags = O_RDONLY

\* line 484: (fi->flags & O_ACCMODE) == O_RDONLY
AccessModeIsReadOnly(flags) == flags % (O_ACCMODE + 1) = O_RDONLY

\* lines 475-489
zipfs_open(ds, fs, p, flags) ==
    LET file == lookup_file(ds, fs, p)
    IN  IF ~file.found THEN -ENOENT
        ELSE IF ~AccessModeIsReadOnly(flags) THEN -EACCES
        ELSE 0

\* st_size reported for a directory, line 431
DirStSize == 4096

\* memset(stbuf, 0, sizeof(struct stat)), line 420
ZeroStat == [kind |-> "none", st_nlink |-> 0, st_size |-> 0]

\* lines 417-443: the return value and what is left in *stbuf
zipfs_getattr(ds, fs, p) ==
    LET dir  == lookup_dir(ds, p)
        file == lookup_file(ds, fs, p)
    IN  IF dir.found
        THEN [ret |-> 0,
              stbuf |-> [kind |-> "S_IFDIR", st_nlink |-> 2, st_size |-> DirStSize]]
        ELSE IF file.found
        THEN [ret |-> 0,
              stbuf |-> [kind |-> "S_IFREG", st_nlink |-> 1, st_size |-> file.entry.size]]
        ELSE [ret |-> -ENOENT, stbuf |-> ZeroStat]

\* lines 508-510 dropped
ClampSize_None(size, offset, file_size) == size

\* lines 507-510: adjust size if reading past end of file
ClampSize(size, offset, file_size) ==
    IF offset + size > file_size THEN file_size - offset ELSE size

\* zip_fread on an entry with len_left decompressed bytes still unread:
\* the number of bytes delivered
FreadCount(len_left, want) == IF want < len_left THEN want ELSE len_left

\* lines 531-548: bytes of the entry consumed by the discard loop, reading
\* at most DiscardBufSize bytes per zip_fread and stopping at end of data
RECURSIVE DiscardLoop(_, _)
DiscardLoop(remaining, len_left) ==
    IF remaining <= 0 THEN 0
    ELSE LET to_read == IF remaining > DiscardBufSize THEN DiscardBufSize ELSE remaining
             result  == FreadCount(len_left, to_read)
         IN  IF result = 0 THEN 0
             ELSE result + DiscardLoop(remaining - result, len_left - result)

\* the entry zip_fopen_index(za, file->offset(), 0) opens for a FileEntry
OpenedEntry(lst, fe) == get_zip_path(lst, fe.zip_path_idx).entries[fe.offset + 1]

\* lines 491-561.  io names the libzip call that fails, if any.  The result
\* carries the return value and the bytes placed in buf.
zipfs_read(lst, ds, fs, p, size, offset, io) ==
    LET file == lookup_file(ds, fs, p)
    IN  IF ~file.found THEN [ret |-> -ENOENT, buf |-> <<>>]
        ELSE IF offset >= file.entry.size
             THEN [ret |-> 0, buf |-> <<>>]
        ELSE LET sz   == ClampSize(size, offset, file.entry.size)
                 zf   == OpenedEntry(lst, file.entry)
                 skip == DiscardLoop(offset, Len(zf.data))
                 n    == FreadCount(Len(zf.data) - skip, sz)
             IN  IF io = "zip_open"
                 THEN [ret |-> -EIO, buf |-> <<>>]
                 ELSE IF io = "zip_fopen_index" \/ zf.stat # "ok"
                 THEN [ret |-> -EIO, buf |-> <<>>]
                 ELSE IF offset > 0 /\ io = "discard"
                 THEN [ret |-> -EIO, buf |-> <<>>]
                 ELSE IF io = "zip_fread"
                 THEN [ret |-> -EIO, buf |-> <<>>]
                 ELSE [ret |-> n,
                       buf |-> SubSeq(zf.data, skip + 1, skip + n)]

-----------------------------------------------------------------------------
(* The rewrite tool: ZipStreamSource and zip_stream_source_cb               *)
(*                                                    src/src/utils.cpp:69  *)

\* zip_stream_source_cb returns -1 on failure
CbFail == 0 - 1

\* struct ZipStreamSource before `new` (no object): state "none".  A live
\* object holds the read handle `file` (TRUE = non-null) and the error
\* record; open_handles counts the zip_file_t handles obtained through it and
\* not yet passed to zip_fclose, pos is the read position of the handle in
\* `file`, frees counts how many times the object was deleted.
NoStream ==
    [state |-> "none", file |-> FALSE, pos |-> 0, open_handles |-> 0,
     frees |-> 0, error |-> "none"]

\* new ZipStreamSource() and zip_error_init (lines 307-319)
NewStream == [NoStream EXCEPT !.state = "live"]

\* a handle that resumed where the closed one had stopped
OpenPos_Resumed(s) == s.pos

\* the handle zip_fopen_index returns reads from the first byte of the
\* entry (line 102)
OpenPos(s) == 0

\* ZIP_SOURCE_OPEN (lines 101-108): file is assigned whatever
\* zip_fopen_index returns
cb_OPEN(s, fopen_ok) ==
    IF fopen_ok
    THEN [src |-> [s EXCEPT !.file = TRUE, !.pos = OpenPos(s),
                            !.open_handles = @ + 1],
          ret |-> 0, bytes |-> <<>>]
    ELSE [src |-> [s EXCEPT !.file = FALSE, !.error = "ZIP_ER_OPEN"],
          ret |-> CbFail, bytes |-> <<>>]

\* line 110 dropped: the read goes ahead without a handle
HasReadHandle_Always(s) == TRUE

\* `source->file` is non-null (line 110)
HasReadHandle(s) == s.file

\* ZIP_SOURCE_READ (lines 109-119): zip_fread yields the next bytes of the
\* entry's decompressed data, at most len of them, or fails
cb_READ(s, data, len, fread_ok) ==
    IF ~HasReadHandle(s)
    THEN [src |-> [s EXCEPT !.error = "ZIP_ER_INVAL"],
          ret |-> CbFail, bytes |-> <<>>]
    ELSE IF ~fread_ok
    THEN [src |-> [s EXCEPT !.error = "ZIP_ER_READ"],
          ret |-> CbFail, bytes |-> <<>>]
    ELSE LET left == Len(data) - s.pos
             n == IF len <= left THEN len ELSE left
         IN  [src |-> [s EXCEPT !.pos = @ + n],
              ret |-> n,
              bytes |-> SubSeq(data, s.pos + 1, s.pos + n)]

\* ZIP_SOURCE_CLOSE (lines 120-126)
cb_CLOSE(s) ==
    IF s.file
    THEN [src |-> [s EXCEPT !.file = FALSE, !.open_handles = @ - 1],
          ret |-> 0, bytes |-> <<>>]
    ELSE [src |-> s, ret |-> 0, bytes |-> <<>>]

\* ZIP_SOURCE_FREE (lines 141-148): closes a handle still open and deletes
\* the object
cb_FREE(s) ==
    [src |-> [cb_CLOSE(s).src EXCEPT !.state = "freed", !.frees = @ + 1],
     ret |-> 0, bytes |-> <<>>]

SizeofZipStat == 64

\* ZIP_SOURCE_STAT (lines 127-138): fails when the buffer is smaller than
\* a zip_stat_t
cb_STAT(s, len) ==
    IF len < SizeofZipStat
    THEN [src |-> [s EXCEPT !.error = "ZIP_ER_INVAL"],
          ret |-> CbFail, bytes |-> <<>>]
    ELSE [src |-> s, ret |-> SizeofZipStat, bytes |-> <<>>]

SizeofErrorData == 8

\* ZIP_SOURCE_ERROR (lines 139-140): zip_error_to_data hands out the
\* recorded error as two ints, and fails on a buffer too small for them
cb_ERROR(s, len) ==
    IF len < SizeofErrorData
    THEN [src |-> [s EXCEPT !.error = "ZIP_ER_INVAL"],
          ret |-> CbFail, bytes |-> <<>>, error |-> "none"]
    ELSE [src |-> s, ret |-> SizeofErrorData, bytes |-> <<>>,
          error |-> s.error]

\* zip_error_fini and `delete stream_source` when zip_source_function
\* fails (lines 322-327): libzip never saw the object
DeleteStream(s) == [s EXCEPT !.state = "freed", !.frees = @ + 1]

-----------------------------------------------------------------------------
(* The rewrite tool: main                            src/src/utils.cpp:173 *)

ExitAbort == 134

MaxRwEntries == 3
StreamBufSize == 2

\* entries of input archives: two stored entries named "a" with different
\* bytes, a compressed entry, a directory entry, an entry zip_stat_index
\* fails on, and one whose compression method libzip does not report
RwEntryPool ==
    { Entry(<<"a">>, <<1, 2, 3>>, "STORE", "ok", FullValid),
      Entry(<<"a">>, <<2>>, "STORE", "ok", FullValid),
      Entry(<<"b">>, <<1>>, "DEFLATE", "ok", FullValid),
      Entry(<<"d", "/">>, <<>>, "STORE", "ok", FullValid),
      Entry(<<"b">>, <<1>>, "STORE", "fail", {}),
      Entry(<<"c">>, <<3>>, "DEFLATE", "ok", {"NAME", "SIZE"}) }

RwInputs ==
    {[ok |-> TRUE, entries |-> es] : es \in SeqsUpTo(RwEntryPool, MaxRwEntries)}
        \cup {[ok |-> FALSE, entries |-> <<>>]}

NoFile == [exists |-> FALSE, entries |-> <<>>]

\* the state of the rewrite variables while the tool has not been started
RwNotStarted ==
    /\ input_zip = [ok |-> FALSE, entries |-> <<>>]
    /\ output_zip = <<>>
    /\ out_file = NoFile
    /\ streams = <<>>
    /\ rw = [pc |-> "idle", block_size |-> 0, zip_open_calls |-> {}, i |-> 0,
             files_processed |-> 0, files_decompressed |-> 0, log |-> <<>>,
             exit_code |-> 0]
    /\ zc = [k |-> 0, phase |-> "idle", cur |-> <<>>, failed |-> FALSE,
             written |-> <<>>]

\* the state of the mount tool's variables while it has not been started
MountNotStarted ==
    mnt = [pc |-> "idle", zip_files |-> <<>>, mount_point |-> <<>>,
           fuse_args |-> <<>>, k |-> 0, fuse_argv |-> <<>>, exit_code |-> 0]

\* no worker thread is serving a request
NoThreads == <<>>

\* zip_stream_source_cb has not been called
NoCall == [cmd |-> "none", n |-> 0, before |-> <<>>]

\* `name_len > 0 && name[name_len - 1] == '/'` (line 281)
IsDirectoryName(name) == Len(name) > 0 /\ name[Len(name)] = "/"

\* `st.valid & ZIP_STAT_COMP_METHOD` and `st.comp_method != ZIP_CM_STORE`
\* (lines 288-295)
IsCompressed(e) == "COMP_METHOD" \in e.valid /\ e.comp_method # "STORE"

\* zip_file_add with ZIP_FL_OVERWRITE (line 329): the slot already holding
\* the name, or 0 when the name is new
NameLocate(table, name) ==
    IF \E n \in 1..Len(table) : table[n].name = name
    THEN CHOOSE n \in 1..Len(table) : table[n].name = name
    ELSE 0

\* the entry table after zip_file_add(output_zip, name, source,
\* ZIP_FL_OVERWRITE): a new name is appended with the default compression
\* method, an existing name keeps its slot and method and gets the new source
zip_file_add(table, name, source) ==
    LET at == NameLocate(table, name)
    IN  IF at = 0
        THEN Append(table, [name |-> name, source |-> source, method |-> "DEFAULT"])
        ELSE [table EXCEPT ![at].source = source]

\* zip_set_file_compression(output_zip, idx, ZIP_CM_STORE, 0) (line 337)
zip_set_file_compression(table, at) == [table EXCEPT ![at].method = "STORE"]

-----------------------------------------------------------------------------
(* SpecIndex: a fresh manager indexes archives one after another, as the   *)
(* mount tool's loop does (src/src/main.cpp:88-106)                        *)

Manager == [zip_path_lst |-> zip_path_lst, dirs |-> dirs, files |-> files]

\* the archives indexed so far, in order
Indexed == SubSeq(zip_path_lst, 2, Len(zip_path_lst))

RECURSIVE SumLen(_)
SumLen(as) ==
    IF as = <<>> THEN 0 ELSE Len(as[1].entries) + SumLen(Tail(as))

IndexInit ==
    /\ zip_path_lst = NewManager.zip_path_lst
    /\ dirs = NewManager.dirs
    /\ files = NewManager.files
    /\ index_status = "none"
    /\ resp = NoRequest
    /\ path = <<>>
    /\ ps = PathSplitInit(<<>>)
    /\ RwNotStarted
    /\ MountNotStarted
    /\ argv = <<>>
    /\ reqs = NoThreads
    /\ st_call = NoCall

\* index_zipfile(path): throws before touching the manager when zip_open
\* fails (lines 602-611), otherwise registers the archive and indexes it
IndexZipfile ==
    /\ index_status # "threw"
    /\ Len(Indexed) < MaxArchives
    /\ \E a \in Archives(MaxEntries - SumLen(Indexed)) :
          IF ~a.ok
          THEN /\ index_status' = "threw"
               /\ UNCHANGED <<zip_path_lst, dirs, files>>
          ELSE LET m == IndexArchive(Manager, a)
               IN  /\ zip_path_lst' = m.zip_path_lst
                   /\ dirs' = m.dirs
                   /\ files' = m.files
                   /\ index_status' = "ok"
    /\ UNCHANGED <<pathVars, fsVars, rwVars, mountVars, concVars, cbVars>>

IndexNext == IndexZipfile

SpecIndex == IndexInit /\ [][IndexNext]_vars

-----------------------------------------------------------------------------
(* SpecFs: the index is built, then the dispatch layer issues requests     *)

\* most bytes asked for, and the largest offset, in a read request
MaxReadSize == 3
MaxOffset == 2
\* most entries in the archives mounted for SpecFs
MaxFsEntries == 2

\* the entries of the archives mounted under SpecFs
FsEntryPool ==
    {e \in EntryPool :
        \/ e.name \in {<<"a", "/", "b">>, <<"b", "/">>}
        \/ e.name = <<"a">> /\ e.stat = "ok"
        \/ e.name = <<"b">> /\ "SIZE" \in e.valid}

FsArchiveLists ==
    {as \in SeqsUpTo({[ok |-> TRUE, entries |-> es] :
                         es \in SeqsUpTo(FsEntryPool, MaxFsEntries)}, MaxArchives) :
        SumLen(as) <= MaxFsEntries}

\* IndexArchive applied to each archive of archs in turn (main.cpp:88-106)
RECURSIVE IndexAll(_, _)
IndexAll(m, archs) ==
    IF archs = <<>> THEN m ELSE IndexAll(IndexArchive(m, archs[1]), Tail(archs))

\* paths the dispatch layer asks for
FsPaths ==
    { <<"/", "a">>, <<"/", "a", "/", "b">>, <<"/", "b">>, <<"/", "a", "/">>,
      <<"/">>, <<"/", "c">>, <<"/", "a", "/", ".">>,
      <<"/", "a", "/", "b", "/", ".", ".">> }

OpenFlags == {O_RDONLY, O_WRONLY, O_RDWR, O_RDONLY + O_NONBLOCK, O_WRONLY + O_NONBLOCK}

IoFailures == {"none", "zip_open", "zip_fopen_index", "discard", "zip_fread"}

FsInit ==
    /\ \E archs \in FsArchiveLists :
          LET m == IndexAll(NewManager, archs)
          IN  /\ zip_path_lst = m.zip_path_lst
              /\ dirs = m.dirs
              /\ files = m.files
    /\ index_status = "ok"
    /\ resp = NoRequest
    /\ path = <<>>
    /\ ps = PathSplitInit(<<>>)
    /\ RwNotStarted
    /\ MountNotStarted
    /\ argv = <<>>
    /\ reqs = NoThreads
    /\ st_call = NoCall

ZipfsOpen ==
    /\ resp = NoRequest
    /\ \E p \in FsPaths, flags \in OpenFlags :
          resp' = [op |-> "open", path |-> p, flags |-> flags,
                   ret |-> zipfs_open(dirs, files, p, flags)]
    /\ UNCHANGED <<pathVars, indexVars, rwVars, mountVars, concVars, cbVars>>

ZipfsGetattr ==
    /\ resp = NoRequest
    /\ \E p \in FsPaths :
          resp' = [op |-> "getattr", path |-> p,
                   out |-> zipfs_getattr(dirs, files, p)]
    /\ UNCHANGED <<pathVars, indexVars, rwVars, mountVars, concVars, cbVars>>

\* io only matters once the handler reaches libzip, and "discard" only when
\* the discard loop runs
ZipfsRead ==
    /\ resp = NoRequest
    /\ \E p \in FsPaths, size \in 1..MaxReadSize, offset \in 0..MaxOffset,
          io \in IoFailures :
          LET file == lookup_file(dirs, files, p)
          IN  /\ io # "none" => file.found /\ offset < file.entry.size
              /\ io = "discard" => offset > 0
              /\ resp' = [op |-> "read", path |-> p, size |-> size,
                          offset |-> offset, io |-> io,
                          out |-> zipfs_read(zip_path_lst, dirs, files, p, size, offset, io)]
    /\ UNCHANGED <<pathVars, indexVars, rwVars, mountVars, concVars, cbVars>>

\* the handler's return value goes back to the dispatch layer, which then
\* hands the worker its next request (fuse_main, src/src/main.cpp:127)
FsReply ==
    /\ resp # NoRequest
    /\ resp' = NoRequest
    /\ UNCHANGED <<pathVars, indexVars, rwVars, mountVars, concVars, cbVars>>

FsNext == ZipfsOpen \/ ZipfsRead \/ ZipfsGetattr \/ FsReply

SpecFs == FsInit /\ [][FsNext]_vars

-----------------------------------------------------------------------------
(* SpecPath: PathSplit run step by step on every input up to MaxPathLen *)

PathInit ==
    /\ path \in Strings(MaxPathLen)
    /\ ps = PathSplitInit(path)
    /\ zip_path_lst = <<RootName>>
    /\ dirs = {}
    /\ files = <<>>
    /\ index_status = "none"
    /\ resp = NoRequest
    /\ RwNotStarted
    /\ MountNotStarted
    /\ argv = <<>>
    /\ reqs = NoThreads
    /\ st_call = NoCall

PathSplitLoop ==
    /\ ~ps.done
    /\ ps.i <= Len(path)
    /\ ps' = PathSplitIter(path, ps)
    /\ UNCHANGED path
    /\ UNCHANGED <<indexVars, fsVars, rwVars, mountVars, concVars, cbVars>>

PathSplitDone ==
    /\ ~ps.done
    /\ ps.i > Len(path)
    /\ ps' = PathSplitReturn(ps)
    /\ UNCHANGED path
    /\ UNCHANGED <<indexVars, fsVars, rwVars, mountVars, concVars, cbVars>>

PathNext == PathSplitLoop \/ PathSplitDone

SpecPath == PathInit /\ [][PathNext]_vars

-----------------------------------------------------------------------------
(* SpecRewrite: one run of the rewrite tool, from the opening of the two   *)
(* archives to the exit of main (src/src/utils.cpp:232-376)                *)

\* the locals of main when the arguments have been accepted (lines 174-176,
\* 258-261)
RwLocals(pc, block_size) ==
    [pc |-> pc, block_size |-> block_size, zip_open_calls |-> {}, i |-> 0,
     files_processed |-> 0, files_decompressed |-> 0, log |-> <<>>,
     exit_code |-> 0]

\* the block size of the runs whose command line is not modelled
RwBlockSize == 4096

RwInit ==
    /\ input_zip \in RwInputs
    /\ output_zip = <<>>
    /\ out_file = NoFile
    /\ streams = [n \in 1..Len(input_zip.entries) |-> NoStream]
    /\ rw = RwLocals("start", RwBlockSize)
    /\ zc = [k |-> 0, phase |-> "idle", cur |-> <<>>, failed |-> FALSE,
             written |-> <<>>]
    /\ path = <<>>
    /\ ps = PathSplitInit(<<>>)
    /\ zip_path_lst = <<RootName>>
    /\ dirs = {}
    /\ files = <<>>
    /\ index_status = "none"
    /\ resp = NoRequest
    /\ MountNotStarted
    /\ argv = <<>>
    /\ reqs = NoThreads
    /\ st_call = NoCall

\* `return code` from main
Exit(code) == rw' = [rw EXCEPT !.pc = "done", !.exit_code = code]

\* zip_open of the input and of the output (lines 232-266)
RewriteOpen ==
    /\ rw.pc = "start"
    /\ IF ~input_zip.ok
       THEN rw' = [rw EXCEPT !.pc = "done", !.exit_code = 1,
                             !.zip_open_calls = {"input"}]
       ELSE \E output_ok \in BOOLEAN :
               IF ~output_ok
               THEN rw' = [rw EXCEPT !.pc = "done", !.exit_code = 1,
                                     !.zip_open_calls = {"input", "output"}]
               ELSE rw' = [rw EXCEPT !.pc = "loop",
                                     !.zip_open_calls = {"input", "output"}]
    /\ UNCHANGED <<input_zip, output_zip, out_file, streams, zc>>
    /\ UNCHANGED <<pathVars, indexVars, fsVars, mountVars, concVars, cbVars>>

\* one iteration of the entry loop (lines 268-343)
RewriteEntry ==
    /\ rw.pc = "loop"
    /\ rw.i < Len(input_zip.entries)
    /\ LET e    == input_zip.entries[rw.i + 1]
           dec  == IF IsCompressed(e) THEN 1 ELSE 0
           at   == NameLocate(output_zip, e.name)
           tab  == zip_file_add(output_zip, e.name, rw.i)
           idx  == IF at = 0 THEN Len(tab) ELSE at
       IN  IF e.stat # "ok" \/ IsDirectoryName(e.name)
           THEN /\ rw' = [rw EXCEPT !.i = @ + 1]
                /\ UNCHANGED <<output_zip, streams>>
           ELSE \E outcome \in {"source_fail", "add_fail", "added"},
                   set_ok \in BOOLEAN :
                  /\ outcome # "added" => set_ok
                  /\ CASE outcome = "source_fail" ->
                            /\ streams' = [streams EXCEPT ![rw.i + 1] = DeleteStream(NewStream)]
                            /\ output_zip' = output_zip
                            /\ rw' = [rw EXCEPT !.i = @ + 1,
                                                !.files_decompressed = @ + dec]
                       [] outcome = "add_fail" ->
                            /\ streams' = [streams EXCEPT ![rw.i + 1] = cb_FREE(NewStream).src]
                            /\ output_zip' = output_zip
                            /\ rw' = [rw EXCEPT !.i = @ + 1,
                                                !.files_decompressed = @ + dec]
                       [] outcome = "added" ->
                            /\ streams' =
                                  IF at = 0
                                  THEN [streams EXCEPT ![rw.i + 1] = NewStream]
                                  ELSE [streams EXCEPT
                                           ![rw.i + 1] = NewStream,
                                           ![output_zip[at].source + 1] = cb_FREE(@).src]
                            /\ output_zip' = IF set_ok
                                             THEN zip_set_file_compression(tab, idx)
                                             ELSE tab
                            /\ rw' = [rw EXCEPT !.i = @ + 1,
                                                !.files_decompressed = @ + dec,
                                                !.files_processed = @ + 1,
                                                !.log = Append(@, rw.i)]
    /\ UNCHANGED <<input_zip, out_file, zc>>
    /\ UNCHANGED <<pathVars, indexVars, fsVars, mountVars, concVars, cbVars>>

\* the loop ends and zip_close(output_zip) is called (line 345)
ZipCloseBegin ==
    /\ rw.pc = "loop"
    /\ rw.i = Len(input_zip.entries)
    /\ rw' = [rw EXCEPT !.pc = "close"]
    /\ zc' = [k |-> 1, phase |-> "open", cur |-> <<>>, failed |-> FALSE,
              written |-> <<>>]
    /\ UNCHANGED <<input_zip, output_zip, out_file, streams>>
    /\ UNCHANGED <<pathVars, indexVars, fsVars, mountVars, concVars, cbVars>>

\* the source of the slot zip_close is writing, as an index into streams
CurSource == output_zip[zc.k].source + 1

\* zip_close failed: main closes the input and returns 1 (lines 346-351);
\* the output file is not written
ZipCloseFailed ==
    /\ Exit(1)
    /\ UNCHANGED <<out_file>>

\* zip_close opens the source of the next slot (ZIP_SOURCE_OPEN)
ZipCloseOpen ==
    /\ rw.pc = "close" /\ zc.phase = "open"
    /\ zc.k <= Len(output_zip)
    /\ \E fopen_ok \in BOOLEAN :
          LET r == cb_OPEN(streams[CurSource], fopen_ok)
          IN  /\ streams' = [streams EXCEPT ![CurSource] = r.src]
              /\ IF r.ret = 0
                 THEN /\ zc' = [zc EXCEPT !.phase = "read", !.cur = <<>>]
                      /\ UNCHANGED <<rw, out_file>>
                 ELSE /\ zc' = [zc EXCEPT !.failed = TRUE]
                      /\ ZipCloseFailed
    /\ UNCHANGED <<input_zip, output_zip>>
    /\ UNCHANGED <<pathVars, indexVars, fsVars, mountVars, concVars, cbVars>>

\* zip_close pulls the next buffer from the source (ZIP_SOURCE_READ)
ZipCloseRead ==
    /\ rw.pc = "close" /\ zc.phase = "read"
    /\ \E fread_ok \in BOOLEAN :
          LET data == input_zip.entries[CurSource].data
              r    == cb_READ(streams[CurSource], data, StreamBufSize, fread_ok)
          IN  /\ streams' = [streams EXCEPT ![CurSource] = r.src]
              /\ zc' = IF r.ret > 0
                       THEN [zc EXCEPT !.cur = @ \o r.bytes]
                       ELSE [zc EXCEPT !.phase = "close", !.failed = (r.ret < 0)]
    /\ UNCHANGED <<input_zip, output_zip, out_file, rw>>
    /\ UNCHANGED <<pathVars, indexVars, fsVars, mountVars, concVars, cbVars>>

\* zip_close closes the source after the last read (ZIP_SOURCE_CLOSE); a
\* slot left with the default method is written stored or deflated as libzip
\* chooses
ZipCloseClose ==
    /\ rw.pc = "close" /\ zc.phase = "close"
    /\ streams' = [streams EXCEPT ![CurSource] = cb_CLOSE(@).src]
    /\ IF zc.failed
       THEN /\ ZipCloseFailed
            /\ UNCHANGED zc
       ELSE /\ \E m \in (IF output_zip[zc.k].method = "STORE"
                         THEN {"STORE"} ELSE {"STORE", "DEFLATE"}) :
                  zc' = [zc EXCEPT
                           !.k = @ + 1, !.phase = "open", !.cur = <<>>,
                           !.written = Append(@, [name |-> output_zip[zc.k].name,
                                                  data |-> zc.cur,
                                                  method |-> m])]
            /\ UNCHANGED <<rw, out_file>>
    /\ UNCHANGED <<input_zip, output_zip>>
    /\ UNCHANGED <<pathVars, indexVars, fsVars, mountVars, concVars, cbVars>>

\* every slot is written: zip_close replaces the output file and discards
\* the archive, which frees the sources still attached to it, or fails to
\* write.  An archive without entries is not written at all, and
\* std::filesystem::file_size(output_path) then throws (line 366).
ZipCloseCommit ==
    /\ rw.pc = "close" /\ zc.phase = "open"
    /\ zc.k > Len(output_zip)
    /\ \E write_ok \in BOOLEAN :
          IF write_ok
          THEN /\ out_file' = IF zc.written = <<>> THEN NoFile
                              ELSE [exists |-> TRUE, entries |-> zc.written]
               /\ streams' = [n \in DOMAIN streams |->
                                IF \E k \in 1..Len(output_zip) : output_zip[k].source + 1 = n
                                THEN cb_FREE(streams[n]).src
                                ELSE streams[n]]
               /\ Exit(IF zc.written = <<>> THEN ExitAbort ELSE 0)
          ELSE /\ ZipCloseFailed
               /\ UNCHANGED streams
    /\ UNCHANGED <<input_zip, output_zip, zc>>
    /\ UNCHANGED <<pathVars, indexVars, fsVars, mountVars, concVars, cbVars>>

RwNext ==
    \/ RewriteOpen
    \/ RewriteEntry
    \/ ZipCloseBegin
    \/ ZipCloseOpen
    \/ ZipCloseRead
    \/ ZipCloseClose
    \/ ZipCloseCommit

SpecRewrite == RwInit /\ [][RwNext]_vars

-----------------------------------------------------------------------------
(* SpecRewriteCli: the rewrite tool from its command line on               *)
(*                                                   src/src/utils.cpp:173 *)

MaxRwArgs == 4

OptB == <<"-", "b">>
OptH == <<"-", "h">>

\* what the command line can hold: the options -b and -h, an option getopt
\* does not know, block sizes, an input archive, a file that is no archive,
\* a path that does not exist, and an output path
RwArgPool ==
    { OptB, OptH, <<"-", "z">>, <<"8">>, <<"1", "2">>, <<"0">>,
      <<"i">>, <<"j">>, <<"x">>, <<"o">> }

DigitValue ==
    [c \in {"0", "1", "2", "3", "4", "5", "6", "7", "8", "9"} |->
        CASE c = "0" -> 0 [] c = "1" -> 1 [] c = "2" -> 2 [] c = "3" -> 3
          [] c = "4" -> 4 [] c = "5" -> 5 [] c = "6" -> 6 [] c = "7" -> 7
          [] c = "8" -> 8 [] c = "9" -> 9]

\* std::stoull(optarg): the value of the leading decimal digits; throws
\* when there is none
RECURSIVE LeadingValue(_, _, _)
LeadingValue(s, k, acc) ==
    IF k > Len(s) \/ s[k] \notin DOMAIN DigitValue THEN acc
    ELSE LeadingValue(s, k + 1, 10 * acc + DigitValue[s[k]])

stoull(s) ==
    IF s = <<>> \/ s[1] \notin DOMAIN DigitValue
    THEN [ok |-> FALSE, val |-> 0]
    ELSE [ok |-> TRUE, val |-> LeadingValue(s, 1, 0)]

\* every block size is taken for a power of two
IsPowerOfTwo_Any(b) == TRUE

\* `(block_size & (block_size - 1)) == 0` for block_size > 0 (line 192)
RECURSIVE IsPowerOfTwo(_)
IsPowerOfTwo(b) ==
    IF b = 1 THEN TRUE
    ELSE IF b % 2 = 1 THEN FALSE
    ELSE IsPowerOfTwo(b \div 2)

\* `block_size == 0 || (block_size & (block_size - 1)) != 0` (line 192)
BlockSizeRejected(b) == b = 0 \/ ~IsPowerOfTwo(b)

GetoptContinue == 0 - 1

\* getopt_long takes an argument that starts with '-' and is longer than
\* that for an option (line 187)
IsGetoptOption(arg) == Len(arg) > 1 /\ arg[1] = "-"

\* lines 185-208: the getopt_long loop from argument i on.  ret is the value
\* main returns from inside the loop, or GetoptContinue; positional collects
\* the arguments getopt leaves for optind.
RECURSIVE GetoptLoop(_, _, _)
GetoptLoop(args, i, st) ==
    IF i > Len(args) THEN st
    ELSE IF args[i] = OptB
    THEN IF i = Len(args) THEN [st EXCEPT !.ret = 1]
         ELSE LET v == stoull(args[i + 1])
              IN  IF ~v.ok THEN [st EXCEPT !.ret = 1]
                  ELSE IF BlockSizeRejected(v.val) THEN [st EXCEPT !.ret = 1]
                  ELSE GetoptLoop(args, i + 2, [st EXCEPT !.block_size = v.val])
    ELSE IF args[i] = OptH THEN [st EXCEPT !.ret = 0]
    ELSE IF IsGetoptOption(args[i]) THEN [st EXCEPT !.ret = 1]
    ELSE GetoptLoop(args, i + 1, [st EXCEPT !.positional = Append(@, args[i])])

\* std::filesystem::exists(input_path) on the disk the tool runs on
RwExists(p) == p \in {<<"i">>, <<"j">>}

\* what zip_open reports for the input path
RwArchiveAt(p) ==
    IF p = <<"i">>
    THEN [ok |-> TRUE,
          entries |-> << Entry(<<"a">>, <<1, 2, 3>>, "DEFLATE", "ok", FullValid) >>]
    ELSE [ok |-> FALSE, entries |-> <<>>]

RwCliInit ==
    /\ argv \in SeqsUpTo(RwArgPool, MaxRwArgs)
    /\ input_zip = [ok |-> FALSE, entries |-> <<>>]
    /\ output_zip = <<>>
    /\ out_file = NoFile
    /\ streams = <<>>
    /\ rw = RwLocals("args", 0)
    /\ zc = [k |-> 0, phase |-> "idle", cur |-> <<>>, failed |-> FALSE,
             written |-> <<>>]
    /\ path = <<>>
    /\ ps = PathSplitInit(<<>>)
    /\ zip_path_lst = <<RootName>>
    /\ dirs = {}
    /\ files = <<>>
    /\ index_status = "none"
    /\ resp = NoRequest
    /\ MountNotStarted
    /\ reqs = NoThreads
    /\ st_call = NoCall

\* lines 174-230: option parsing, the positional arguments, the block size
\* and the existence of the input
RewriteArgs ==
    /\ rw.pc = "args"
    /\ LET st == GetoptLoop(argv, 1, [block_size |-> 0, positional |-> <<>>,
                                      ret |-> GetoptContinue])
       IN  IF st.ret # GetoptContinue
           THEN /\ Exit(st.ret)
                /\ UNCHANGED <<input_zip, streams>>
           ELSE IF Len(st.positional) # 2
           THEN /\ Exit(1)
                /\ UNCHANGED <<input_zip, streams>>
           ELSE IF st.block_size = 0
           THEN /\ Exit(1)
                /\ UNCHANGED <<input_zip, streams>>
           ELSE IF ~RwExists(st.positional[1])
           THEN /\ Exit(1)
                /\ UNCHANGED <<input_zip, streams>>
           ELSE /\ rw' = [rw EXCEPT !.pc = "start", !.block_size = st.block_size]
                /\ input_zip' = RwArchiveAt(st.positional[1])
                /\ streams' = [n \in 1..Len(input_zip'.entries) |-> NoStream]
    /\ UNCHANGED <<argv, output_zip, out_file, zc>>
    /\ UNCHANGED <<pathVars, indexVars, fsVars, mnt, concVars, cbVars>>

RwCliNext ==
    \/ RewriteArgs
    \/ RewriteOpen
    \/ RewriteEntry
    \/ ZipCloseBegin
    \/ ZipCloseOpen
    \/ ZipCloseRead
    \/ ZipCloseClose
    \/ ZipCloseCommit

SpecRewriteCli == RwCliInit /\ [][RwCliNext]_vars

-----------------------------------------------------------------------------
(* SpecStream: one ZipStreamSource driven by any sequence of commands      *)
(* until it is freed                                  src/src/utils.cpp:97 *)

MaxCalls == 5

\* the decompressed bytes of the entry the source is bound to
StreamData == {<<>>, <<1>>, <<1, 2, 3>>}

StreamInit ==
    /\ \E data \in StreamData :
          input_zip = [ok |-> TRUE,
                       entries |-> << Entry(<<"a">>, data, "DEFLATE", "ok", FullValid) >>]
    /\ streams = << NewStream >>
    /\ st_call = NoCall
    /\ output_zip = <<>>
    /\ out_file = NoFile
    /\ rw = RwLocals("idle", 0)
    /\ zc = [k |-> 0, phase |-> "idle", cur |-> <<>>, failed |-> FALSE,
             written |-> <<>>]
    /\ path = <<>>
    /\ ps = PathSplitInit(<<>>)
    /\ zip_path_lst = <<RootName>>
    /\ dirs = {}
    /\ files = <<>>
    /\ index_status = "none"
    /\ resp = NoRequest
    /\ MountNotStarted
    /\ argv = <<>>
    /\ reqs = NoThreads

\* the two commands that preceded the next one, oldest first
Before ==
    IF st_call.cmd = "none"
    THEN <<>>
    ELSE LET c == [cmd |-> st_call.cmd, ret |-> st_call.ret,
                   pre |-> st_call.pre]
         IN  IF st_call.before = <<>>
             THEN << c >>
             ELSE << st_call.before[Len(st_call.before)], c >>

\* a command reaches the callback: the object before the call, the inputs,
\* and the result are recorded, and the object is replaced by its new state
Called(cmd, len, io_ok, r) ==
    /\ st_call' = [cmd |-> cmd, n |-> st_call.n + 1, before |-> Before,
                   len |-> len,
                   io_ok |-> io_ok, pre |-> streams[1], ret |-> r.ret,
                   bytes |-> r.bytes,
                   error |-> IF "error" \in DOMAIN r THEN r.error ELSE "none"]
    /\ streams' = << r.src >>
    /\ UNCHANGED <<input_zip, output_zip, out_file, rw, zc>>
    /\ UNCHANGED <<pathVars, indexVars, fsVars, mountVars, concVars>>

\* libzip issues no command after ZIP_SOURCE_FREE
CanCall == streams[1].state = "live" /\ st_call.n < MaxCalls

StreamOpen ==
    /\ CanCall
    /\ \E fopen_ok \in BOOLEAN :
          Called("OPEN", 0, fopen_ok, cb_OPEN(streams[1], fopen_ok))

StreamRead ==
    /\ CanCall
    /\ \E len \in 1..StreamBufSize, fread_ok \in BOOLEAN :
          Called("READ", len, fread_ok,
                 cb_READ(streams[1], input_zip.entries[1].data, len, fread_ok))

StreamClose ==
    /\ CanCall
    /\ Called("CLOSE", 0, TRUE, cb_CLOSE(streams[1]))

StreamStat ==
    /\ CanCall
    /\ \E len \in {0, SizeofZipStat} :
          Called("STAT", len, TRUE, cb_STAT(streams[1], len))

StreamError ==
    /\ CanCall
    /\ \E len \in {0, SizeofErrorData} :
          Called("ERROR", len, TRUE, cb_ERROR(streams[1], len))

StreamFree ==
    /\ streams[1].state = "live"
    /\ Called("FREE", 0, TRUE, cb_FREE(streams[1]))

StreamNext ==
    \/ StreamOpen
    \/ StreamRead
    \/ StreamClose
    \/ StreamStat
    \/ StreamError
    \/ StreamFree

SpecStream == StreamInit /\ [][StreamNext]_vars

-----------------------------------------------------------------------------
(* SpecConc: the handlers run by several fuse_main workers at once, each   *)
(* worker stepping through its handler between the others' steps           *)
(*                                                   src/src/utils.cpp:417 *)

\* the workers of the multi-threaded fuse_main loop
Threads == {1, 2}

\* lines 445-473: the return value and the names passed to filler; the
\* maps are unordered, so the children are sets
zipfs_readdir(ds, fs, p) ==
    LET dir == lookup_dir(ds, p)
    IN  IF ~dir.found
        THEN [ret |-> -ENOENT, dots |-> <<>>, subdirs |-> {}, files |-> {}]
        ELSE LET under(q) == /\ Len(q) = Len(dir.dir) + 1
                             /\ SubSeq(q, 1, Len(dir.dir)) = dir.dir
             IN  [ret |-> 0,
                  dots |-> <<".", "..">>,
                  subdirs |-> {q[Len(q)] : q \in {x \in ds : under(x)}},
                  files |-> {q[Len(q)] : q \in {x \in DOMAIN fs : under(x)}}]

\* zip_file_t* zf of zipfs_read before zip_fopen_index and after zip_fclose
NoHandle == [open |-> FALSE, data |-> <<>>, pos |-> 0]

\* a worker waiting for its next request
IdleThread == [pc |-> "idle", zf |-> NoHandle, za |-> FALSE]

\* zip_fclose and zip_close left out: the handles stay open
zip_fclose_Skipped(zf) == zf

\* zip_fclose(zf) (lines 540, 552): the entry handle is gone
zip_fclose(zf) == NoHandle

\* zip_close(za) (lines 526, 541, 553): the archive handle is gone
zip_close(za) == FALSE

\* one handle for all workers, as a file-static zf would be
HandleOwner_Shared(t) == 1

\* za and zf are locals of zipfs_read (lines 515, 523): the handle a worker
\* reads through is its own
HandleOwner(t) == t

\* the archives mounted under SpecConc: one archive of two entries
ConcArchiveLists ==
    {as \in FsArchiveLists :
        /\ Len(as) = 1
        /\ Len(as[1].entries) = 2
        /\ as[1].entries[1].name = <<"a", "/", "b">>}

ConcPaths == { <<"/", "a">>, <<"/", "a", "/", "b">>, <<"/">>, <<"/", "c">> }

ConcFlags == {O_RDONLY, O_WRONLY}

ConcInit ==
    /\ \E archs \in ConcArchiveLists :
          LET m == IndexAll(NewManager, archs)
          IN  /\ zip_path_lst = m.zip_path_lst
              /\ dirs = m.dirs
              /\ files = m.files
    /\ index_status = "ok"
    /\ resp = NoRequest
    /\ path = <<>>
    /\ ps = PathSplitInit(<<>>)
    /\ RwNotStarted
    /\ MountNotStarted
    /\ argv = <<>>
    /\ reqs = [t \in Threads |-> IdleThread]
    /\ st_call = NoCall

\* worker t moves to r; its handle is left as it was
Step(t, r) ==
    /\ reqs' = [reqs EXCEPT ![t] = [r EXCEPT !.zf = reqs[t].zf]]
    /\ UNCHANGED <<pathVars, indexVars, fsVars, rwVars, mountVars, cbVars>>

\* worker t moves to r and the handle it reads through becomes z
StepHandle(t, r, z) ==
    /\ reqs' = [[reqs EXCEPT ![t] = [r EXCEPT !.zf = reqs[t].zf]]
                   EXCEPT ![HandleOwner(t)].zf = z]
    /\ UNCHANGED <<pathVars, indexVars, fsVars, rwVars, mountVars, cbVars>>

Return(r, out) == [r EXCEPT !.pc = "done", !.out = out]

\* the handle worker t reads through
Zf(t) == reqs[HandleOwner(t)].zf

\* the dispatch layer hands worker t a request
ConcBegin(t) ==
    /\ reqs[t].pc = "idle"
    /\ \E op \in {"getattr", "readdir", "open", "read"}, p \in ConcPaths,
          flags \in ConcFlags, size \in {1, MaxReadSize},
          offset \in {0, 1, MaxOffset} :
          /\ op # "open" => flags = O_RDONLY
          /\ op # "read" => size = 1 /\ offset = 0
          /\ Step(t, [pc |-> IF op \in {"getattr", "readdir"} THEN "dir" ELSE "file",
                      op |-> op, path |-> p, flags |-> flags, size |-> size,
                      offset |-> offset, io |-> "none", sz |-> 0,
                      remaining |-> 0, out |-> <<>>, zf |-> NoHandle,
                      za |-> reqs[t].za])

\* zipfs_getattr: lookup_dir (line 425), then lookup_file (line 436)
ConcGetattr(t) ==
    LET r == reqs[t]
    IN  /\ r.pc \in {"dir", "file"}
        /\ r.op = "getattr"
        /\ IF r.pc = "dir"
           THEN LET dir == lookup_dir(dirs, r.path)
                IN  IF dir.found
                    THEN Step(t, Return(r, [ret |-> 0,
                                 stbuf |-> [kind |-> "S_IFDIR", st_nlink |-> 2,
                                            st_size |-> DirStSize]]))
                    ELSE Step(t, [r EXCEPT !.pc = "file"])
           ELSE LET file == lookup_file(dirs, files, r.path)
                IN  IF file.found
                    THEN Step(t, Return(r, [ret |-> 0,
                                 stbuf |-> [kind |-> "S_IFREG", st_nlink |-> 1,
                                            st_size |-> file.entry.size]]))
                    ELSE Step(t, Return(r, [ret |-> -ENOENT, stbuf |-> ZeroStat]))

\* zipfs_readdir: lookup_dir and the filler calls (lines 445-473)
ConcReaddir(t) ==
    LET r == reqs[t]
    IN  /\ r.pc = "dir"
        /\ r.op = "readdir"
        /\ Step(t, Return(r, zipfs_readdir(dirs, files, r.path)))

\* zipfs_open: lookup_file (line 478), then the access mode test (line 484)
ConcOpen(t) ==
    LET r == reqs[t]
    IN  /\ r.pc \in {"file", "flags"}
        /\ r.op = "open"
        /\ IF r.pc = "file"
           THEN IF lookup_file(dirs, files, r.path).found
                THEN Step(t, [r EXCEPT !.pc = "flags"])
                ELSE Step(t, Return(r, -ENOENT))
           ELSE Step(t, Return(r, IF AccessModeIsReadOnly(r.flags)
                                  THEN 0 ELSE -EACCES))

\* zipfs_read: lookup_file, bounds check and size adjustment (lines 497-510)
ConcReadLookup(t) ==
    LET r    == reqs[t]
        file == lookup_file(dirs, files, r.path)
    IN  /\ r.pc = "file"
        /\ r.op = "read"
        /\ IF ~file.found
           THEN Step(t, Return(r, [ret |-> -ENOENT, buf |-> <<>>]))
           ELSE IF r.offset >= file.entry.size
           THEN Step(t, Return(r, [ret |-> 0, buf |-> <<>>]))
           ELSE Step(t, [r EXCEPT !.pc = "zip_open",
                                  !.sz = ClampSize(r.size, r.offset, file.entry.size)])

\* zipfs_read: zip_open and zip_fopen_index (lines 513-528)
ConcReadOpen(t) ==
    LET r  == reqs[t]
        zf == OpenedEntry(zip_path_lst, lookup_file(dirs, files, r.path).entry)
    IN  /\ r.pc = "zip_open"
        /\ \E io \in {"none", "zip_open", "zip_fopen_index"} :
              IF io # "none" \/ zf.stat # "ok"
              THEN Step(t, Return([r EXCEPT !.io = io],
                                  [ret |-> -EIO, buf |-> <<>>]))
              ELSE StepHandle(t, [r EXCEPT !.pc = IF r.offset > 0 THEN "discard"
                                                  ELSE "zip_fread",
                                           !.remaining = r.offset,
                                           !.za = TRUE],
                              [open |-> TRUE, data |-> zf.data, pos |-> 0])

\* zipfs_read: one iteration of the discard loop (lines 535-547)
ConcReadDiscard(t) ==
    LET r       == reqs[t]
        to_read == IF r.remaining > DiscardBufSize THEN DiscardBufSize
                   ELSE r.remaining
        result  == FreadCount(Len(Zf(t).data) - Zf(t).pos, to_read)
    IN  /\ r.pc = "discard"
        /\ \E fread_ok \in BOOLEAN :
              IF ~fread_ok
              THEN StepHandle(t, Return([r EXCEPT !.io = "discard",
                                                  !.za = zip_close(r.za)],
                                        [ret |-> -EIO, buf |-> <<>>]),
                              zip_fclose(Zf(t)))
              ELSE StepHandle(t, [r EXCEPT !.remaining = @ - result,
                                           !.pc = IF result = 0 \/ r.remaining - result <= 0
                                                  THEN "zip_fread" ELSE "discard"],
                              [Zf(t) EXCEPT !.pos = @ + result])

\* zipfs_read: the read into buf, zip_fclose and zip_close (lines 550-560)
ConcReadFread(t) ==
    LET r == reqs[t]
        n == FreadCount(Len(Zf(t).data) - Zf(t).pos, r.sz)
    IN  /\ r.pc = "zip_fread"
        /\ \E fread_ok \in BOOLEAN :
              IF ~fread_ok
              THEN StepHandle(t, Return([r EXCEPT !.io = "zip_fread",
                                                  !.za = zip_close(r.za)],
                                        [ret |-> -EIO, buf |-> <<>>]),
                              zip_fclose(Zf(t)))
              ELSE StepHandle(t, Return([r EXCEPT !.za = zip_close(r.za)],
                                        [ret |-> n,
                                         buf |-> SubSeq(Zf(t).data, Zf(t).pos + 1,
                                                        Zf(t).pos + n)]),
                              zip_fclose(Zf(t)))

\* the handler's return value goes back to the dispatch layer
ConcReply(t) ==
    /\ reqs[t].pc = "done"
    /\ Step(t, [IdleThread EXCEPT !.za = reqs[t].za])

ConcNext ==
    \E t \in Threads :
        \/ ConcBegin(t)
        \/ ConcGetattr(t)
        \/ ConcReaddir(t)
        \/ ConcOpen(t)
        \/ ConcReadLookup(t)
        \/ ConcReadOpen(t)
        \/ ConcReadDiscard(t)
        \/ ConcReadFread(t)
        \/ ConcReply(t)

SpecConc == ConcInit /\ [][ConcNext]_vars

-----------------------------------------------------------------------------
(* SpecLookup: lookup_dir and lookup_file applied to every path string     *)
(* up to MaxLookupLen on a built index               src/src/utils.cpp:764 *)

MaxLookupLen == 4

\* the archives mounted under SpecLookup: one archive of two entries
LookupArchiveLists ==
    {as \in FsArchiveLists : Len(as) = 1 /\ Len(as[1].entries) = 2}

LookupInit ==
    /\ \E archs \in LookupArchiveLists :
          LET m == IndexAll(NewManager, archs)
          IN  /\ zip_path_lst = m.zip_path_lst
              /\ dirs = m.dirs
              /\ files = m.files
    /\ index_status = "ok"
    /\ resp = NoRequest
    /\ path = <<>>
    /\ ps = PathSplitInit(<<>>)
    /\ RwNotStarted
    /\ MountNotStarted
    /\ argv = <<>>
    /\ reqs = NoThreads
    /\ st_call = NoCall

\* a handler calls lookup_dir and lookup_file with path p
Lookup ==
    /\ resp = NoRequest
    /\ \E p \in Strings(MaxLookupLen) :
          resp' = [op |-> "lookup", path |-> p,
                   dir |-> lookup_dir(dirs, p),
                   file |-> lookup_file(dirs, files, p)]
    /\ UNCHANGED <<pathVars, indexVars, rwVars, mountVars, concVars, cbVars>>

\* the handler returns
LookupReturn ==
    /\ resp # NoRequest
    /\ resp' = NoRequest
    /\ UNCHANGED <<pathVars, indexVars, rwVars, mountVars, concVars, cbVars>>

LookupNext == Lookup \/ LookupReturn

SpecLookup == LookupInit /\ [][LookupNext]_vars

-----------------------------------------------------------------------------
(* SpecMount: one run of the mount tool             src/src/main.cpp:31    *)

MaxArgs == 4

\* argv[0]
ProgName == <<"p">>

\* what the command line can name: two archives with different contents, a
\* regular file libzip cannot open, a directory, a path that does not exist,
\* the option flags, and an option value
ArgPool ==
    { <<"a">>, <<"c">>, <<"b">>, <<"m">>, <<"x">>,
      <<"-", "f">>, <<"-", "d">>, <<"-", "s">>, <<"-", "o">>, <<"k", "=", "v">> }

\* std::filesystem::exists / is_directory / is_regular_file on the disk the
\* tool runs on
PathKind(p) ==
    IF p \in {<<"a">>, <<"c">>, <<"b">>} THEN "file"
    ELSE IF p = <<"m">> THEN "dir"
    ELSE "missing"

\* what zip_open and zip_stat_index report for the file at p
ArchiveAt(p) ==
    IF p = <<"a">>
    THEN [ok |-> TRUE,
          entries |-> << Entry(<<"a">>, <<1>>, "STORE", "ok", FullValid) >>]
    ELSE IF p = <<"c">>
    THEN [ok |-> TRUE,
          entries |-> << Entry(<<"a">>, <<2, 2>>, "DEFLATE", "ok", FullValid),
                         Entry(<<"b", "/", "a">>, <<1>>, "STORE", "ok", FullValid) >>]
    ELSE [ok |-> FALSE, entries |-> <<>>]

\* `argv[i][0] == '-'` (line 47)
IsOption(arg) == Len(arg) > 0 /\ arg[1] = "-"

\* lines 45-61: the loop over argv[1..] from position i on, with the locals
\* it has built so far; err is set by the `return 1` of line 58
RECURSIVE ParseArgs(_, _, _)
ParseArgs(args, i, st) ==
    IF i > Len(args) THEN st
    ELSE IF IsOption(args[i])
    THEN ParseArgs(args, i + 1,
                   [st EXCEPT !.fuse_args = Append(@, args[i]),
                              !.parsing_files = FALSE])
    ELSE IF st.parsing_files
    THEN ParseArgs(args, i + 1, [st EXCEPT !.zip_files = Append(@, args[i])])
    ELSE [st EXCEPT !.err = TRUE]

\* the exception index_zipfile throws is not caught
IndexThrew_Swallowed(a) == FALSE

\* index_zipfile throws when zip_open fails (utils.cpp:602-611); main
\* catches std::exception (main.cpp:100-105)
IndexThrew(a) == ~a.ok

\* `-o` and `ro,default_permissions` (lines 114-115)
ReadOnlyValue ==
    <<"r", "o", ",", "d", "e", "f", "a", "u", "l", "t", "_", "p", "e",
      "r", "m", "i", "s", "s", "i", "o", "n", "s">>

ReadOnlyArgs == << <<"-", "o">>, ReadOnlyValue >>

MountInit ==
    /\ argv \in SeqsUpTo(ArgPool, MaxArgs)
    /\ mnt = [pc |-> "start", zip_files |-> <<>>, mount_point |-> <<>>,
              fuse_args |-> <<>>, k |-> 0, fuse_argv |-> <<>>, exit_code |-> 0]
    /\ zip_path_lst = NewManager.zip_path_lst
    /\ dirs = NewManager.dirs
    /\ files = NewManager.files
    /\ index_status = "none"
    /\ resp = NoRequest
    /\ path = <<>>
    /\ ps = PathSplitInit(<<>>)
    /\ RwNotStarted
    /\ reqs = NoThreads
    /\ st_call = NoCall

MountExit(code) == mnt' = [mnt EXCEPT !.pc = "done", !.exit_code = code]

\* lines 32-82: argument parsing and validation of the mount point
MountParse ==
    /\ mnt.pc = "start"
    /\ LET st == ParseArgs(argv, 1,
                           [zip_files |-> <<>>, fuse_args |-> <<ProgName>>,
                            parsing_files |-> TRUE, err |-> FALSE])
           n  == Len(st.zip_files)
       IN  IF Len(argv) + 1 < 3 THEN MountExit(1)
           ELSE IF st.err THEN MountExit(1)
           ELSE IF n < 2 THEN MountExit(1)
           ELSE IF PathKind(st.zip_files[n]) = "missing" THEN MountExit(1)
           ELSE IF PathKind(st.zip_files[n]) # "dir" THEN MountExit(1)
           ELSE mnt' = [mnt EXCEPT !.pc = "index",
                                   !.zip_files = SubSeq(st.zip_files, 1, n - 1),
                                   !.mount_point = st.zip_files[n],
                                   !.fuse_args = st.fuse_args]
    /\ UNCHANGED <<argv, pathVars, indexVars, fsVars, rwVars, concVars, cbVars>>

\* lines 88-106: one iteration of the indexing loop
MountIndex ==
    /\ mnt.pc = "index"
    /\ mnt.k < Len(mnt.zip_files)
    /\ LET zip_file == mnt.zip_files[mnt.k + 1]
           a        == ArchiveAt(zip_file)
           m        == IndexArchive(Manager, a)
       IN  IF PathKind(zip_file) = "missing" \/ PathKind(zip_file) # "file"
           THEN /\ MountExit(1)
                /\ UNCHANGED indexVars
           ELSE IF IndexThrew(a)
           THEN /\ MountExit(1)
                /\ index_status' = "threw"
                /\ UNCHANGED <<zip_path_lst, dirs, files>>
           ELSE /\ mnt' = [mnt EXCEPT !.k = @ + 1]
                /\ zip_path_lst' = m.zip_path_lst
                /\ dirs' = m.dirs
                /\ files' = m.files
                /\ index_status' = "ok"
    /\ UNCHANGED <<argv, pathVars, fsVars, rwVars, concVars, cbVars>>

\* lines 108-127: the FUSE argument vector is completed and fuse_main called
MountStartFuse ==
    /\ mnt.pc = "index"
    /\ mnt.k = Len(mnt.zip_files)
    /\ LET args == Append(mnt.fuse_args, mnt.mount_point) \o ReadOnlyArgs
       IN  mnt' = [mnt EXCEPT !.pc = "fuse", !.fuse_args = args, !.fuse_argv = args]
    /\ UNCHANGED <<argv, pathVars, indexVars, fsVars, rwVars, concVars, cbVars>>

\* lines 127-129: fuse_main returns and main returns its value
MountFuseReturn ==
    /\ mnt.pc = "fuse"
    /\ \E ret \in {0, 1} : MountExit(ret)
    /\ UNCHANGED <<argv, pathVars, indexVars, fsVars, rwVars, concVars, cbVars>>

MountNext == MountParse \/ MountIndex \/ MountStartFuse \/ MountFuseReturn

SpecMount == MountInit /\ [][MountNext]_vars

-----------------------------------------------------------------------------
(* Properties of PathSplit, checked under SpecPath *)

\* The raw components of p: the maximal runs of bytes other than '/', as
\* 0-based half-open spans in left-to-right order.
CompStarts(p) ==
    {s \in 1..Len(p) : p[s] # "/" /\ (s = 1 \/ p[s - 1] = "/")}

CompEnd(p, s) ==
    CHOOSE e \in s..Len(p) :
        /\ \A k \in s..e : p[k] # "/"
        /\ (e = Len(p) \/ p[e + 1] = "/")

RawSpans(p) ==
    LET S == CompStarts(p)
    IN  [n \in 1..Cardinality(S) |->
            LET s == CHOOSE t \in S : Cardinality({u \in S : u < t}) = n - 1
            IN  <<s - 1, CompEnd(p, s)>>]

Dot == <<".">>
DotDot == <<".", ".">>

\* The stack left by the first k raw components: '.' is dropped, '..' pops
\* the top if there is one, anything else is pushed as its span.
RECURSIVE StackAfter(_, _, _)
StackAfter(p, spans, k) ==
    IF k = 0 THEN <<>>
    ELSE LET prev == StackAfter(p, spans, k - 1)
             c    == Span(p, spans[k])
         IN  IF c = Dot THEN prev
             ELSE IF c = DotDot
                  THEN IF prev = <<>> THEN <<>> ELSE SubSeq(prev, 1, Len(prev) - 1)
                  ELSE Append(prev, spans[k])

EndsWithSlash(p) == Len(p) > 0 /\ p[Len(p)] = "/"

LastRawIsDots(p) ==
    LET spans == RawSpans(p)
    IN  spans # <<>> /\ Span(p, spans[Len(spans)]) \in {Dot, DotDot}

\* C8: at every point of the constructor, for every input, no retained
\* component span is empty, equals "." or equals "..".
C8_NoDotOrEmptyComponent ==
    \A k \in 1..Len(ps.segments) :
        LET c == Span(path, ps.segments[k])
        IN  /\ ps.segments[k][1] < ps.segments[k][2]
            /\ c # <<>>
            /\ c # Dot
            /\ c # DotDot

\* a finished run on ".//a": a dot and an empty component were dropped and
\* one component is retained
C8_Witness ==
    /\ ps.done
    /\ path = <<".", "/", "/", "a">>
    /\ Len(ps.segments) = 1

\* C9: when the constructor returns, is_dir is true exactly when the input
\* ends with '/' or its last non-empty component is "." or ".."; in
\* particular it is false for the empty input.
C9_IsDirExactly ==
    ps.done =>
        /\ ps.is_dir = (EndsWithSlash(path) \/ LastRawIsDots(path))
        /\ (path = <<>> => ~ps.is_dir)

\* ".." alone: nothing to remove, no trailing '/', and is_dir is true
C9_Witness ==
    /\ ps.done
    /\ path = DotDot
    /\ ps.is_dir
    /\ ps.segments = <<>>

\* C10: the retained components are the stack obtained by processing the raw
\* components left to right (push the span of an ordinary component, pop on
\* ".." if the stack is non-empty, otherwise drop the ".."); "../b" yields
\* the single span (3,4), "a/.." and ".." yield no component.
C10_StackOfSpans ==
    ps.done =>
        /\ ps.segments = StackAfter(path, RawSpans(path), Len(RawSpans(path)))
        /\ (path = <<".", ".", "/", "b">> => ps.segments = << <<3, 4>> >>)
        /\ (path = <<"a", "/", ".", ".">> => ps.segments = <<>>)
        /\ (path = DotDot => ps.segments = <<>>)

\* "../b" has been split: the leading ".." removed nothing and "b" is kept
C10_Witness ==
    /\ ps.done
    /\ path = <<".", ".", "/", "b">>
    /\ ps.segments = << <<3, 4>> >>
    /\ ~ps.is_dir

-----------------------------------------------------------------------------
(* Properties of the merged index, checked under SpecIndex *)

\* An entry that denotes a file: its metadata was retrieved with name and
\* size, its name does not end in '/', and its normalization is neither
\* marked as a directory nor empty.
IsFileEntry(e) ==
    /\ e.stat = "ok"
    /\ {"NAME", "SIZE"} \subseteq e.valid
    /\ ~EndsWithSlash(e.name)
    /\ ~PathSplit(e.name).is_dir
    /\ PathSplit(e.name).segments # <<>>

\* the normalized path of an entry: its component names
NormPath(e) == SegmentNames(e.name, PathSplit(e.name).segments)

FileEntryIdx(a) == {k \in 1..Len(a.entries) : IsFileEntry(a.entries[k])}

FilePaths(a) == {NormPath(a.entries[k]) : k \in FileEntryIdx(a)}

\* the first entry of archive a at normalized file path P (1-based)
FirstEntryAt(a, P) ==
    CHOOSE k \in FileEntryIdx(a) :
        /\ NormPath(a.entries[k]) = P
        /\ \A l \in FileEntryIdx(a) : NormPath(a.entries[l]) = P => k <= l

Holders(archs, P) == {i \in 1..Len(archs) : P \in FilePaths(archs[i])}

Min(S) == CHOOSE x \in S : \A y \in S : x <= y
Max(S) == CHOOSE x \in S : \A y \in S : x >= y

\* the path string the dispatch layer passes for a normalized path: "/n1/n2"
RECURSIVE JoinPath(_)
JoinPath(names) ==
    IF names = <<>> THEN <<>>
    ELSE <<"/">> \o names[1] \o JoinPath(Tail(names))

Reverse(q) == [k \in 1..Len(q) |-> q[Len(q) + 1 - k]]

\* the manager after indexing archs in order
BuildIndex(archs) == IndexAll(NewManager, archs)

\* normalized paths worth asking for: every path of the pool, every node
CandidatePaths ==
    {NormPath(e) : e \in EntryPool} \cup DOMAIN files \cup dirs
        \cup {Append(d, <<"b">>) : d \in dirs}

Resolvable == {P \in CandidatePaths : lookup_file(dirs, files, JoinPath(P)).found}

C3_ExactlyNResolved ==
    Len(Indexed) = 1 =>
        LET a  == Indexed[1]
            FE == FileEntryIdx(a)
        IN  (\A k, l \in FE : k # l => NormPath(a.entries[k]) # NormPath(a.entries[l]))
            => /\ Cardinality(Resolvable) = Cardinality(FE)
               /\ \A k \in FE :
                    LET r == lookup_file(dirs, files, JoinPath(NormPath(a.entries[k])))
                    IN  r.found /\ r.entry = NewFileEntry(1, a.entries[k], k - 1)

\* one archive with three file entries at three distinct paths, all resolved
C3_Witness ==
    /\ Len(Indexed) = 1
    /\ Cardinality(FileEntryIdx(Indexed[1])) = 3
    /\ Cardinality(FilePaths(Indexed[1])) = 3
    /\ Cardinality(Resolvable) = 3

-----------------------------------------------------------------------------
(* Properties of the FUSE handlers, checked under SpecFs *)

\* the FileEntry a request path resolves to
Resolved(p) == lookup_file(dirs, files, p)

MinOf(x, y) == IF x < y THEN x ELSE y

C7_OpenReadOnly ==
    resp.op = "open" =>
        IF Resolved(resp.path).found
        THEN /\ resp.ret = 0 <=> resp.flags \in {O_RDONLY, O_RDONLY + O_NONBLOCK}
             /\ resp.ret # 0 => resp.ret = -EACCES
             /\ resp.flags \in {O_WRONLY, O_RDWR, O_WRONLY + O_NONBLOCK}
                    => resp.ret = -EACCES
        ELSE resp.ret = -ENOENT

\* a read-only open with another flag set succeeded on an indexed file
C7_Witness ==
    /\ resp.op = "open"
    /\ Resolved(resp.path).found
    /\ resp.flags = O_RDONLY + O_NONBLOCK
    /\ resp.ret = 0

-----------------------------------------------------------------------------
(* Properties of the rewrite tool, checked under SpecRewrite *)

RwSucceeded == rw.pc = "done" /\ rw.exit_code = 0

\* the output file holds an entry of this name with these bytes
HasEntry(name, data) ==
    \E o \in 1..Len(out_file.entries) :
        /\ out_file.entries[o].name = name
        /\ out_file.entries[o].data = data

\* ... and that entry is marked stored
InOutput(name, data) ==
    \E o \in 1..Len(out_file.entries) :
        /\ out_file.entries[o].name = name
        /\ out_file.entries[o].method = "STORE"
        /\ out_file.entries[o].data = data

\* the input indices of the entries the loop has to copy: every entry that
\* is not a directory entry
NonDirectory ==
    {n \in 0..(Len(input_zip.entries) - 1) :
        ~IsDirectoryName(input_zip.entries[n + 1].name)}

LogSet == {rw.log[n] : n \in 1..Len(rw.log)}

\* every zip_set_file_compression call of the run succeeded
AllSetStored == \A k \in 1..Len(output_zip) : output_zip[k].method = "STORE"

\* C5: after a rewrite that exits with code 0, every entry counted in
\* "Files processed" is in the output file under its own name, stored, with
\* the bytes of the input entry it was copied from.  Stated for the runs in
\* which no zip_set_file_compression call failed.
C5_ProcessedPreserved ==
    (RwSucceeded /\ AllSetStored) =>
        /\ Len(rw.log) = rw.files_processed
        /\ \A n \in LogSet :
              InOutput(input_zip.entries[n + 1].name, input_zip.entries[n + 1].data)

\* every entry of the input is known to be stored
AllStored ==
    \A n \in 1..Len(input_zip.entries) :
        /\ input_zip.entries[n].stat = "ok"
        /\ "COMP_METHOD" \in input_zip.entries[n].valid
        /\ input_zip.entries[n].comp_method = "STORE"

\* C6: a rewrite of an input whose entries are all stored, in which no
\* entry was given up on, reports 0 files decompressed, and the output file
\* holds exactly the non-directory entries of the input, each with the bytes
\* it has in the input.
C6_StoredInputCopied ==
    (RwSucceeded /\ AllStored /\ rw.files_processed = Cardinality(NonDirectory)) =>
        /\ rw.files_decompressed = 0
        /\ \A n \in NonDirectory :
              HasEntry(input_zip.entries[n + 1].name, input_zip.entries[n + 1].data)
        /\ \A o \in 1..Len(out_file.entries) :
              \E n \in NonDirectory :
                  /\ input_zip.entries[n + 1].name = out_file.entries[o].name
                  /\ input_zip.entries[n + 1].data = out_file.entries[o].data

-----------------------------------------------------------------------------
(* Properties of lookup_file and zipfs_getattr, checked under SpecFs *)

\* the names a path normalizes to, computed from its raw components
NormNames(p) ==
    SegmentNames(p, StackAfter(p, RawSpans(p), Len(RawSpans(p))))

\* the path syntactically denotes a directory
DenotesDir(p) == EndsWithSlash(p) \/ LastRawIsDots(p)

\* every proper prefix of names is a directory of the index and names itself
\* is a file of the index
WalksToFile(names) ==
    /\ names # <<>>
    /\ \A k \in 1..(Len(names) - 1) : SubSeq(names, 1, k) \in dirs
    /\ names \in DOMAIN files

\* open and read fail with ENOENT exactly when lookup_file returned nullptr
LookupFileFound ==
    IF resp.op = "open" THEN resp.ret # -ENOENT ELSE resp.out.ret # -ENOENT

\* C11: lookup_file finds nothing for a path that ends with '/' or whose
\* last component is "." or "..", whatever the remaining components name;
\* for any other path it finds a file exactly when all components but the
\* last are directories of the index and the whole is a file of the index.
C11_LookupFileRejectsDirPaths ==
    resp.op \in {"open", "read"} =>
        /\ DenotesDir(resp.path) => ~LookupFileFound
        /\ ~DenotesDir(resp.path) => (LookupFileFound <=> WalksToFile(NormNames(resp.path)))

\* "/a/b/.." is opened while "a" is an indexed file: the components left
\* after normalization name a file, and the open still fails with ENOENT
C11_Witness ==
    /\ resp.op = "open"
    /\ resp.path = <<"/", "a", "/", "b", "/", ".", ".">>
    /\ << <<"a">> >> \in DOMAIN files
    /\ resp.ret = -ENOENT

\* the normalized path names a directory of the index, or the root
WalksToDir(names) == \A k \in 1..Len(names) : SubSeq(names, 1, k) \in dirs

\* the path resolves to an indexed file
ResolvesToFile(p) == ~DenotesDir(p) /\ WalksToFile(NormNames(p))

\* C12: zipfs_getattr reports a directory (size 4096, link count 2) exactly
\* for the paths that resolve to a directory of the index, the root included;
\* a regular file with its declared size and link count 1 for every path
\* that resolves to an indexed file; and ENOENT for every other path.
C12_GetattrSemantics ==
    resp.op = "getattr" =>
        LET p  == resp.path
            st == resp.out.stbuf
        IN  /\ (resp.out.ret = 0 /\ st.kind = "S_IFDIR") <=> WalksToDir(NormNames(p))
            /\ st.kind = "S_IFDIR" => (st.st_size = DirStSize /\ st.st_nlink = 2)
            /\ ResolvesToFile(p) =>
                  /\ resp.out.ret = 0
                  /\ st.kind = "S_IFREG"
                  /\ st.st_nlink = 1
                  /\ st.st_size = files[NormNames(p)].size
            /\ (~WalksToDir(NormNames(p)) /\ ~ResolvesToFile(p)) => resp.out.ret = -ENOENT

-----------------------------------------------------------------------------
(* Properties of the mount tool, checked under SpecMount *)

\* the arguments that are not options, in order; the last one is the mount
\* path and the ones before it are the archives
NonOptions(args) == SelectSeq(args, LAMBDA x : ~IsOption(x))
ListedArchives(args) == SubSeq(NonOptions(args), 1, Len(NonOptions(args)) - 1)
ListedMountPath(args) == NonOptions(args)[Len(NonOptions(args))]

\* the archives in the manager's list, in the order they were indexed
IndexedArchives == SubSeq(zip_path_lst, 2, Len(zip_path_lst))

\* the command lines the tool has to refuse
MustRefuse(args) ==
    \/ Len(NonOptions(args)) < 2
    \/ PathKind(ListedMountPath(args)) # "dir"
    \/ \E n \in 1..Len(ListedArchives(args)) :
          \/ PathKind(ListedArchives(args)[n]) # "file"
          \/ ~ArchiveAt(ListedArchives(args)[n]).ok

FuseStarted == mnt.fuse_argv # <<>>

\* C13: fuse_main is called only after every listed archive has been
\* indexed, in argument order; and when there are fewer than one archive and
\* a mount path, the mount path is not an existing directory, an archive is
\* not an existing regular file, or an archive cannot be indexed, fuse_main
\* is never called and the tool exits with code 1.
C13_IndexBeforeDispatch ==
    /\ FuseStarted =>
          IndexedArchives = [n \in 1..Len(ListedArchives(argv)) |->
                                ArchiveAt(ListedArchives(argv)[n])]
    /\ MustRefuse(argv) =>
          /\ ~FuseStarted
          /\ mnt.pc \notin {"fuse"}
          /\ mnt.pc = "done" => mnt.exit_code = 1

\* "c a m": both archives are indexed, "c" first, and fuse_main is running
C13_Witness ==
    /\ argv = << <<"c">>, <<"a">>, <<"m">> >>
    /\ mnt.pc = "fuse"
    /\ IndexedArchives = << ArchiveAt(<<"c">>), ArchiveAt(<<"a">>) >>
    /\ files[<< <<"a">> >>].size = 2

\* the arguments from the first option on
OptionTail(args) ==
    IF \E i \in 1..Len(args) : IsOption(args[i])
    THEN SubSeq(args, CHOOSE i \in 1..Len(args) :
                          IsOption(args[i]) /\ \A j \in 1..(i - 1) : ~IsOption(args[j]),
                Len(args))
    ELSE <<>>

DashO == <<"-", "o">>

\* a list of mount options: flags, and `-o` arguments each followed by its
\* value
IsOptionList(t) ==
    \A i \in 1..Len(t) :
        /\ ~IsOption(t[i]) => (i > 1 /\ t[i - 1] = DashO)
        /\ t[i] = DashO => (i < Len(t) /\ ~IsOption(t[i + 1]))

\* archives, then the mount directory, then mount options
ArchivesMountOptions(args) ==
    LET t == OptionTail(args)
        h == SubSeq(args, 1, Len(args) - Len(t))
    IN  /\ Len(h) >= 2
        /\ \A i \in 1..Len(h) : ~IsOption(h[i])
        /\ PathKind(h[Len(h)]) = "dir"
        /\ \A i \in 1..(Len(h) - 1) :
              PathKind(h[i]) = "file" /\ ArchiveAt(h[i]).ok
        /\ IsOptionList(t)

\* C14: for a command line of archives, a mount directory and mount options
\* (flags, and -o with its value), the tool does not refuse the command
\* line, and the argument vector given to fuse_main holds the options
\* unchanged and in order, the mount directory, and the appended
\* `-o ro,default_permissions`.
C14_OptionsForwarded ==
    ArchivesMountOptions(argv) =>
        LET t == OptionTail(argv)
            h == SubSeq(argv, 1, Len(argv) - Len(t))
        IN  /\ mnt.pc = "done" => FuseStarted
            /\ FuseStarted =>
                  mnt.fuse_argv = <<ProgName>> \o t \o <<h[Len(h)]>> \o ReadOnlyArgs

-----------------------------------------------------------------------------
(* Properties of the rewrite tool's command line, checked under            *)
(* SpecRewriteCli                                                          *)

\* argument i is the value of a -b option
RECURSIVE IsBlockSizeValue(_, _)
IsBlockSizeValue(args, i) ==
    i > 1 /\ args[i - 1] = OptB /\ ~IsBlockSizeValue(args, i - 1)

\* the values given to -b, the positional paths, and whether help is asked
BlockSizePositions(args) == {i \in 1..Len(args) : IsBlockSizeValue(args, i)}

PositionalPositions(args) ==
    {i \in 1..Len(args) : ~IsBlockSizeValue(args, i) /\ ~IsGetoptOption(args[i])}

InputPosition(args) ==
    CHOOSE i \in PositionalPositions(args) : \A j \in PositionalPositions(args) : i <= j

HelpAsked(args) ==
    \E i \in 1..Len(args) : ~IsBlockSizeValue(args, i) /\ args[i] = OptH

\* the number a decimal numeral stands for
RECURSIVE NumeralValue(_)
NumeralValue(s) ==
    IF s = <<>> THEN 0
    ELSE 10 * NumeralValue(SubSeq(s, 1, Len(s) - 1)) + DigitValue[s[Len(s)]]

MaxBits == 8

NamesPowerOfTwo(s) ==
    /\ s # <<>>
    /\ \A k \in 1..Len(s) : s[k] \in DOMAIN DigitValue
    /\ \E e \in 0..MaxBits : NumeralValue(s) = 2 ^ e

\* the command line lacks something the tool needs
FaultyLine(args) ==
    \/ BlockSizePositions(args) = {}
    \/ \E i \in BlockSizePositions(args) : ~NamesPowerOfTwo(args[i])
    \/ Cardinality(PositionalPositions(args)) < 2
    \/ ~RwExists(args[InputPosition(args)])

CopyStarted == rw.zip_open_calls # {}

\* C15: zip_open is called, and copying starts, only when a block size was
\* given and names a power of two, exactly two positional paths are given
\* and the input exists.  With a block size that is missing or no power of
\* two, with a path missing or with an input that does not exist, zip_open
\* is never called on the input or on the output, and the tool exits with
\* code 1 (with 0 when -h was reached first).
C15_ArgumentsCheckedFirst ==
    /\ CopyStarted =>
          /\ BlockSizePositions(argv) # {}
          /\ \A i \in BlockSizePositions(argv) : NamesPowerOfTwo(argv[i])
          /\ Cardinality(PositionalPositions(argv)) = 2
          /\ RwExists(argv[InputPosition(argv)])
          /\ IsPowerOfTwo(rw.block_size)
    /\ FaultyLine(argv) =>
          /\ ~CopyStarted
          /\ rw.pc \in {"args", "done"}
          /\ out_file = NoFile
          /\ rw.pc = "done" =>
                \/ rw.exit_code = 1
                \/ HelpAsked(argv) /\ rw.exit_code = 0

\* "-b 12 i o": 12 is no power of two, and the tool has exited with code 1
\* without a call of zip_open
C15_Witness ==
    /\ argv = << OptB, <<"1", "2">>, <<"i">>, <<"o">> >>
    /\ rw.pc = "done"
    /\ rw.exit_code = 1
    /\ ~CopyStarted

-----------------------------------------------------------------------------
(* Properties of the stream callback                  src/src/utils.cpp:97 *)

\* the ZIP_SOURCE_READ just answered had no handle to read from, or
\* zip_fread failed
ReadFailed == ~st_call.pre.file \/ ~st_call.io_ok

\* what ZIP_SOURCE_ERROR, given a large enough buffer, reports now
ErrorQuery == cb_ERROR(streams[1], SizeofErrorData).error

\* C16: a read returns a non-negative count only when it produced that many
\* bytes of the entry, and 0 only at the end of the data; a failed read,
\* a read with no handle open (before open, after close) included, returns
\* a negative result and records an error that the error query reports.
C16_ReadResult ==
    st_call.cmd = "READ" =>
        LET data == input_zip.entries[1].data
            from == st_call.pre.pos
        IN  /\ ReadFailed =>
                  /\ st_call.ret < 0
                  /\ st_call.bytes = <<>>
                  /\ ErrorQuery \in {"ZIP_ER_INVAL", "ZIP_ER_READ"}
            /\ ~ReadFailed =>
                  /\ st_call.ret >= 0
                  /\ st_call.bytes = SubSeq(data, from + 1, from + st_call.ret)
                  /\ Len(st_call.bytes) = st_call.ret
                  /\ (st_call.ret = 0) <=> (from = Len(data))

\* a read issued after the handle was read from and closed is refused
C16_Witness ==
    /\ st_call.cmd = "READ"
    /\ ~st_call.pre.file
    /\ st_call.pre.pos > 0
    /\ st_call.pre.error = "none"
    /\ st_call.ret = CbFail
    /\ ErrorQuery = "ZIP_ER_INVAL"

\* the source as the last command left it
StreamNow == streams[1]

\* the first `n` bytes of the entry the source is bound to
FirstBytes(n) == SubSeq(input_zip.entries[1].data, 1, n)

\* the last command was a read that succeeded right after an open that
\* succeeded
ReadAfterOpen ==
    /\ st_call.cmd = "READ"
    /\ st_call.ret >= 0
    /\ st_call.before # <<>>
    /\ st_call.before[Len(st_call.before)].cmd = "OPEN"
    /\ st_call.before[Len(st_call.before)].ret = 0

\* C17: close always succeeds and leaves no handle, and a close with no
\* handle open (after a close, or with no open before it) changes nothing;
\* an open that succeeds, after a close included, gives a handle on the
\* entry, and the read after it yields the entry's bytes from the first.
C17_CloseIdempotentReopenRestarts ==
    /\ st_call.cmd = "CLOSE" =>
          /\ st_call.ret = 0
          /\ ~StreamNow.file
          /\ ~st_call.pre.file => StreamNow = st_call.pre
    /\ (st_call.cmd = "OPEN" /\ st_call.ret = 0) =>
          /\ StreamNow.file
          /\ StreamNow.open_handles >= 1
    /\ ReadAfterOpen => st_call.bytes = FirstBytes(st_call.ret)

\* bytes were read, the handle was closed, the source was opened again and
\* the read that followed returned the first bytes once more
C17_Witness ==
    /\ ReadAfterOpen
    /\ st_call.ret > 0
    /\ Len(st_call.before) = 2
    /\ st_call.before[1].cmd = "CLOSE"
    /\ st_call.before[1].pre.file
    /\ st_call.before[1].pre.pos > 0
    /\ st_call.bytes = FirstBytes(st_call.ret)

-----------------------------------------------------------------------------
(* Properties of the rewrite tool's stream sources   src/src/utils.cpp:307 *)

\* the ZipStreamSource objects the run has allocated so far
Allocated == {n \in DOMAIN streams : streams[n].state # "none"}

\* main has returned
RwExited == rw.pc = "done"

\* zip_close is about to issue a command to the source of the current slot
CommandPending ==
    /\ rw.pc = "close"
    /\ zc.k <= Len(output_zip)

\* C18: every ZipStreamSource the rewrite tool allocates is released exactly
\* once whichever way its entry and the run end: never twice, released with
\* no read handle left open by the time main returns, and never the target
\* of a command after its release.
C18_ReleasedExactlyOnce ==
    /\ \A n \in Allocated : streams[n].frees <= 1
    /\ CommandPending => streams[CurSource].state = "live"
    /\ RwExited =>
          \A n \in Allocated :
              /\ streams[n].state = "freed"
              /\ streams[n].frees = 1
              /\ streams[n].open_handles = 0

\* the same, for the runs in which zip_close does not fail
C18_ReleasedUnlessCloseFails ==
    /\ \A n \in Allocated : streams[n].frees <= 1
    /\ CommandPending => streams[CurSource].state = "live"
    /\ (RwExited /\ rw.exit_code # 1) =>
          \A n \in Allocated :
              /\ streams[n].state = "freed"
              /\ streams[n].frees = 1
              /\ streams[n].open_handles = 0

\* the source of input entry n reported an open or a read error
StreamFailed(n) == streams[n + 1].error \in {"ZIP_ER_OPEN", "ZIP_ER_READ"}

FailedEntries == {n \in LogSet : StreamFailed(n)}

\* the name of input entry n is the name of no other entry
UniqueName(n) ==
    \A m \in 0..(Len(input_zip.entries) - 1) :
        input_zip.entries[m + 1].name = input_zip.entries[n + 1].name => m = n

\* C19: when the source of one entry fails with an open or a read error,
\* only that entry is given up: the run still completes and prints its
\* summary, every other entry that was added is in the output file with its
\* bytes, and "Files processed" counts the entries without the failed one.
C19_StreamFailureSkipsOneEntry ==
    (RwExited /\ FailedEntries # {}) =>
        /\ rw.exit_code # 1
        /\ \A n \in LogSet \ FailedEntries :
              UniqueName(n) =>
                  HasEntry(input_zip.entries[n + 1].name,
                           input_zip.entries[n + 1].data)
        /\ rw.files_processed = Cardinality(LogSet \ FailedEntries)

-----------------------------------------------------------------------------
(* Properties of the handlers run concurrently       src/src/utils.cpp:417 *)

\* what the request of record r returns when its handler runs with no other
\* request in progress, the same libzip call failing
Alone(r) ==
    CASE r.op = "getattr" -> zipfs_getattr(dirs, files, r.path)
      [] r.op = "readdir" -> zipfs_readdir(dirs, files, r.path)
      [] r.op = "open"    -> zipfs_open(dirs, files, r.path, r.flags)
      [] r.op = "read"    -> zipfs_read(zip_path_lst, dirs, files, r.path,
                                        r.size, r.offset, r.io)

\* a step of one worker leaves the locals of every other worker alone
OwnLocalsOnly ==
    \A t \in Threads :
        reqs'[t] # reqs[t] => \A u \in Threads \ {t} : reqs'[u] = reqs[u]

\* C20: with the index built, attribute, listing, open and read requests
\* served concurrently in any interleaving never change the merged index,
\* never touch another request's state, and each returns what it would
\* return if it ran alone.
C20_ConcurrentRequestsIndependent ==
    /\ [](\A t \in Threads : reqs[t].pc = "done" => reqs[t].out = Alone(reqs[t]))
    /\ [][/\ <<zip_path_lst, dirs, files>>' = <<zip_path_lst, dirs, files>>
          /\ OwnLocalsOnly]_vars

\* two reads of the same file are in progress at once, one of them past its
\* discard loop and about to read, the other already answered with bytes
C20_Witness ==
    /\ reqs[1].pc = "done"
    /\ reqs[1].op = "read"
    /\ reqs[1].out.ret > 0
    /\ reqs[2].pc = "zip_fread"
    /\ reqs[2].path = reqs[1].path
    /\ reqs[2].offset > 0
    /\ reqs[2].zf.open
    /\ reqs[2].zf.pos = reqs[2].offset

\* worker t is inside zipfs_read between zip_fopen_index and the last
\* zip_fclose
ReadInProgress(t) == reqs[t].pc \in {"discard", "zip_fread"}

-----------------------------------------------------------------------------
(* Properties of the FileEntry records, checked under SpecIndex            *)

\* the archive and the 1-based entry of it that the record at P was built
\* from: the first file entry at P of the first archive holding one
SourceArchive(P) == Min(Holders(Indexed, P))
SourceEntry(P) == FirstEntryAt(Indexed[SourceArchive(P)], P)

\* C22: every FileEntry of the index carries the archive id get_zip_path
\* maps to the archive it was read from, and a locator equal to the index
\* of its entry in that archive, so that a read of the record opens the
\* entry that was indexed.
C22_LocatorIsEntryIndex ==
    \A P \in DOMAIN files :
        /\ files[P].zip_path_idx = SourceArchive(P)
        /\ get_zip_path(zip_path_lst, files[P].zip_path_idx)
              = Indexed[SourceArchive(P)]
        /\ files[P].offset = SourceEntry(P) - 1
        /\ OpenedEntry(zip_path_lst, files[P])
              = Indexed[SourceArchive(P)].entries[SourceEntry(P)]

\* the same for the records of entries whose compressed size libzip reports
C22_LocatorWhenCompSizeValid ==
    \A P \in DOMAIN files :
        "COMP_SIZE" \in Indexed[SourceArchive(P)].entries[SourceEntry(P)].valid =>
            /\ files[P].zip_path_idx = SourceArchive(P)
            /\ files[P].offset = SourceEntry(P) - 1
            /\ OpenedEntry(zip_path_lst, files[P])
                  = Indexed[SourceArchive(P)].entries[SourceEntry(P)]

\* zip_stat_index failed on the entry, or it came without name or size
NoMetadata(e) == e.stat # "ok" \/ ~({"NAME", "SIZE"} \subseteq e.valid)

HasMetadata(e) == ~NoMetadata(e)

\* the archive without the entries whose metadata is missing
WithoutBadEntries(a) == [a EXCEPT !.entries = SelectSeq(a.entries, HasMetadata)]

\* the index the same archives give once those entries are taken out
IndexWithoutBadEntries ==
    BuildIndex([i \in 1..Len(Indexed) |-> WithoutBadEntries(Indexed[i])])

\* a FileEntry apart from its locator, which counts the entries before it
Described(fe) ==
    [zip_path_idx |-> fe.zip_path_idx, size |-> fe.size,
     compressed_size |-> fe.compressed_size,
     need_decompression |-> fe.need_decompression]

\* C23: an entry whose metadata cannot be retrieved, or that lacks a name
\* or a size, adds nothing to the index; the other entries of its archive,
\* before and after it, are indexed as if it were not there (same
\* directories, same file paths, same records), and indexing of the archive
\* goes on to its last entry.
C23_BadEntrySkipped ==
    LET other == IndexWithoutBadEntries
    IN  /\ dirs = other.dirs
        /\ DOMAIN files = DOMAIN other.files
        /\ \A P \in DOMAIN files : Described(files[P]) = Described(other.files[P])
        /\ index_status # "threw" => Len(zip_path_lst) = Len(other.zip_path_lst)

\* an archive with a file entry, then an entry without metadata, then
\* another file entry: both files are in the index
C23_Witness ==
    \E i \in 1..Len(Indexed) :
        LET es == Indexed[i].entries
        IN  /\ Len(es) = 3
            /\ NoMetadata(es[2])
            /\ {1, 3} \subseteq FileEntryIdx(Indexed[i])
            /\ NormPath(es[1]) # NormPath(es[3])
            /\ NormPath(es[1]) \in DOMAIN files
            /\ NormPath(es[3]) \in DOMAIN files
            /\ files[NormPath(es[3])].zip_path_idx = i
            /\ Cardinality(DOMAIN files) = 2

\* the ZipStreamSource objects allocated and not yet deleted
LiveStreams == {n \in DOMAIN streams : streams[n].state = "live"}

\* the input indices of the entries zip_close has written so far, in the
\* order it wrote them
WrittenOrder == [k \in 1..Len(zc.written) |-> output_zip[k].source]

\* C24: during a rewrite at most one ZipStreamSource is live at any time,
\* the source of an entry being created, drained and released before the
\* source of the next entry is created, and the entries are written in
\* input order.
C24_OneSourceAtATime ==
    /\ Cardinality(LiveStreams) <= 1
    /\ rw.pc = "close" =>
          \A k, l \in 1..Len(zc.written) : k < l => WrittenOrder[k] < WrittenOrder[l]

\* C25: in the merged index no directory has a child directory and a child
\* file of the same name, so that for every path at most one of lookup_dir
\* and lookup_file succeeds.
C25_NoFileDirClash ==
    /\ DOMAIN files \cap dirs = {}
    /\ \A P \in CandidatePaths :
          ~(/\ lookup_dir(dirs, JoinPath(P)).found
            /\ lookup_file(dirs, files, JoinPath(P)).found)

\* main got past zip_close and printed the summary (lines 358-362)
SummaryPrinted == RwExited /\ rw.exit_code # 1 /\ rw.zip_open_calls = {"input", "output"}

\* C26: in the summary of every rewrite run "Files decompressed" is at most
\* "Files processed": an entry is counted as decompressed only if it was
\* also added to the output.
C26_DecompressedAtMostProcessed ==
    SummaryPrinted => rw.files_decompressed <= rw.files_processed

\* C27: whatever open, read, close, stat and error commands a source is
\* given before its release, it holds at most one read handle at a time,
\* and every handle an open acquired has been closed, by a close or by the
\* release, once the source is released.
C27_AtMostOneHandle ==
    /\ StreamNow.open_handles <= 1
    /\ StreamNow.file <=> StreamNow.open_handles = 1
    /\ StreamNow.state = "freed" => StreamNow.open_handles = 0

\* the handles of the sources of a rewrite run, which zip_close opens and
\* closes in turn
C27_AtMostOneHandleInRewrite ==
    \A n \in DOMAIN streams : streams[n].open_handles <= 1

-----------------------------------------------------------------------------
(* Properties of PathSplit on inputs without components, under SpecPath    *)

\* C28: when the constructor returns, the component list is empty together
\* with is_dir = false exactly for the empty input; every non-empty input
\* left with no component (separators, dots, ".." that cancelled every
\* name) has is_dir = true.
C28_EmptyListNotDirOnlyForEmptyInput ==
    ps.done =>
        /\ (ps.segments = <<>> /\ ~ps.is_dir) <=> (path = <<>>)
        /\ (path # <<>> /\ ps.segments = <<>>) => ps.is_dir
        /\ (path = <<"a", "/", ".", ".">> => ps.segments = <<>> /\ ps.is_dir)

\* "a/../." has been split: the name was cancelled, the dot dropped, nothing
\* is left and the path is a directory
C28_Witness ==
    /\ ps.done
    /\ path = <<"a", "/", ".", ".", "/", ".">>
    /\ ps.segments = <<>>
    /\ ps.is_dir

-----------------------------------------------------------------------------
(* Properties of the lookups, checked under SpecLookup *)

\* most "../" or "/" put in front of a path
MaxPrefixes == 2

RECURSIVE Repeat(_, _)
Repeat(s, n) == IF n = 0 THEN <<>> ELSE s \o Repeat(s, n - 1)

\* the positions of p (0-based) at which a component starts with something
\* after it
ComponentStarts(p) ==
    {k \in 0..(Len(p) - 1) : k = 0 \/ p[k] = "/"}

InsertAt(p, k, s) == SubSeq(p, 1, k) \o s \o SubSeq(p, k + 1, Len(p))

\* what may be put between components without changing what a path names
Detours == { <<"a", "/", ".", ".", "/">>, <<"b", "/", ".", ".", "/">>,
             <<".", "/">> }

\* p with "../" or "/" in front, once or more, and p with a detour put in
\* front of one of its components
Respellings(p) ==
    {Repeat(<<".", ".", "/">>, n) \o p : n \in 1..MaxPrefixes}
        \cup {Repeat(<<"/">>, n) \o p : n \in 1..MaxPrefixes}
        \cup {InsertAt(p, k, d) : k \in ComponentStarts(p), d \in Detours}

\* C29: lookup_dir and lookup_file give for a path the same result as for
\* the path with any number of "../" or "/" in front and with "x/../" or
\* "./" put between its components, and what they give is a directory or a
\* file of the merged tree, or not-found: no path leads out of the root.
C29_LookupsSeeNormalizedPath ==
    resp.op = "lookup" =>
        /\ \A q \in Respellings(resp.path) :
              /\ lookup_dir(dirs, q) = resp.dir
              /\ lookup_file(dirs, files, q) = resp.file
        /\ resp.dir.found => resp.dir.dir \in dirs \cup {<<>>}
        /\ resp.file.found =>
              /\ resp.file.key \in DOMAIN files
              /\ resp.file.entry = files[resp.file.key]

\* "../a" was looked up and found as the file "a" of the root
C29_Witness ==
    /\ resp.op = "lookup"
    /\ resp.path = <<".", ".", "/", "a">>
    /\ resp.file.found
    /\ resp.file.key = << <<"a">> >>
    /\ lookup_file(dirs, files, <<"a">>) = resp.file

-----------------------------------------------------------------------------
(* Properties of the directories of the merged index, under SpecIndex *)

\* path d is a proper prefix of path P
Beneath(d, P) == Len(d) < Len(P) /\ SubSeq(P, 1, Len(d)) = d

\* some indexed archive has an entry that is an explicit directory
HasDirectoryEntry ==
    \E i \in 1..Len(Indexed) : \E k \in 1..Len(Indexed[i].entries) :
        /\ Indexed[i].entries[k].stat = "ok"
        /\ EndsWithSlash(Indexed[i].entries[k].name)

\* some indexed archive has two file entries at one normalized path
HasDuplicate ==
    \E i \in 1..Len(Indexed) : \E k, l \in FileEntryIdx(Indexed[i]) :
        k # l /\ NormPath(Indexed[i].entries[k]) = NormPath(Indexed[i].entries[l])

\* C30: after indexing any sequence of archives every directory of the
\* merged tree other than the root has a file somewhere beneath it:
\* explicit directory entries and entries skipped as duplicates create no
\* directory of their own, so directories empty in an archive are absent.
C30_NoEmptyDirectory ==
    /\ \A d \in dirs : \E P \in DOMAIN files : Beneath(d, P)
    /\ \A i \in 1..Len(Indexed) : \A k \in 1..Len(Indexed[i].entries) :
          LET e == Indexed[i].entries[k]
          IN  (e.stat = "ok" /\ EndsWithSlash(e.name)) =>
                  \/ NormPath(e) \notin dirs
                  \/ \E P \in DOMAIN files : Beneath(NormPath(e), P)

\* the entries "b/", "a/b" and "a/b" again were indexed: the tree has the
\* directory "a" with its file, and no directory "b"
C30_Witness ==
    /\ HasDirectoryEntry
    /\ HasDuplicate
    /\ dirs = { << <<"a">> >> }
    /\ DOMAIN files = { << <<"a">>, <<"b">> >> }

=============================================================================
